---- MODULE Spec2Model ----
(***************************************************************************)
(* A model of the Jishaku cog (src/cog.py) and of its response reactor     *)
(* (src/exception_handling.py).                                            *)
(*                                                                         *)
(* Spec      the task registry: submit(), jsk_tasks, jsk_cancel and the    *)
(*           commands that register themselves (jsk py, jsk repeat,        *)
(*           jsk debug), interleaved at their suspension points.           *)
(* FairSpec  Spec with the fairness the event loop gives.                  *)
(* EvalSpec  jsk py / jsk py_inspect handling the values a snippet yields, *)
(*           and the lifecycle of the reactor around an evaluation.        *)
(* ScopeSpec the scope property, jsk retain and the bindings a snippet     *)
(*           sees and leaves behind.                                       *)
(***************************************************************************)
EXTENDS Integers, Sequences, FiniteSets, TLC

\* ---------------------------------------------------------------- bounds
NumProcs == 2
MaxTasks == 3
RepeatTimes == 2
MaxLen == 2
MaxInv == 3
\* statements of a snippet, and pulls made after its sequence ended
MaxStmts == 3
MaxPulls == 2
\* maxPageSize, the length of the content a paginator is fed, and the idle
\* window of a session (paginatorIdleTimeout) in ticks
MaxPageSize == 3
MaxContent == 4
IdleWindow == 2

\* len(result) > 1024 sends the result through a paginator
InlineLimit == 1024
\* wait_for('admin_authenticate', timeout=30.0)
AuthTimeout == 30
\* a header of more than 485 characters is cut to 482 and "..."
HeaderLimit == 485

Procs == 1..NumProcs

\* ------------------------------------------------------------- the state
VARIABLES
    tasks,        \* Jishaku.tasks: the deque of CommandTask, oldest first
    task_count,   \* Jishaku.task_count
    pc,           \* where each invocation (asyncio task) is suspended
    cmd,          \* the command each invocation runs
    outer,        \* index of the CommandTask of jsk repeat / jsk debug, 0 if none
    inner,        \* index of the CommandTask of the running jsk py, 0 if none
    iter,         \* inner commands started so far (jsk repeat's for loop)
    tick,         \* parity of the awaits the running snippet has resumed from
    must_cancel,  \* asyncio.Task: cancel() was called, CancelledError not raised yet
    how,          \* history: how the invocation left its latest submit block, while
                  \* the exception (or none) is being handled
    lastReq,      \* history: the jsk cancel / jsk tasks request handled by the latest
                  \* step and its reply; NoReq after any other step
    token,        \* self.bot.http.token
    ev_pc,        \* "running" while an evaluation command is inside its reactor
    ev_cmd,       \* ctx.command.name of that command
    last_result,  \* Jishaku.last_result
    result,       \* history: the value the latest step pulled from the executor
    exc,          \* history: the exception the latest step raised in the block
    sent,         \* history: the display calls of the latest step, in order
    alerts,       \* history: the pushbullet calls of the latest step
    lost,         \* history: the positions in sent of the calls that failed
                  \* with discord.HTTPException
    handle,       \* ReactionProcedureTimer.handle: the do_after_sleep task
    raised,       \* ReactionProcedureTimer.raised
    ret,          \* what the reactor's __aexit__ did: "None", "True", "raise"
    marks,        \* history: the reactions attempted on the invoking message
                  \* since the reactor was entered, in order
    retain,       \* Jishaku.retain
    _scope,       \* Jishaku._scope: the bindings of the stored Scope
    sc_pc,        \* "running" while a snippet runs against a scope
    held,         \* the Scope object the running snippet was given: "stored"
                  \* (it is self._scope), "new" (made by the scope property),
                  \* "old" (it was self._scope when jsk retain replaced it)
    own,          \* the bindings of that Scope when it is not self._scope
    locals,       \* the bindings the running snippet has assigned
    arg_dict,     \* the variables injected into the running snippet
    inv,          \* the number of snippets started so far
    last_by,      \* history: the snippet that assigned the binding last_result
                  \* was read from, 0 when it was read from none
    code,         \* the statements of the snippet an executor was built from
    ip,           \* the number of statements of it that have run
    ex_state,     \* the executor's sequence: "suspended", "exhausted", "failed"
    produced,     \* history: the elements the sequence has produced, in order
    h_pc,         \* jsk_python's `async for`: "pull" (awaiting the next value),
                  \* "render" (in the loop body), "left" (out of the reactor)
    events,       \* history: what was rendered and reported, in order
    extra,        \* pulls made after the sequence ended
    pg_wrap,      \* prefix and suffix of the paginator
    pg_content,   \* history: the logical content fed to the paginator
    pg_pages,     \* the pages of the paginator
    pg_cursor,    \* the page the session displays, counted from 0
    pg_closed,    \* the session's closed flag
    pg_controls,  \* the navigation controls are attached
    pg_idle,      \* time since the latest navigation or content update
    pg_last,      \* history: the latest operation on the session
    withheld,     \* history: the value yielded latest matched the token
    yielded,      \* history: the snippet that assigned the binding yielded latest
    since,        \* history: the snippets started before retention was last
                  \* turned on
    h_cmd,        \* ctx.command.name of the handler that consumes the sequence
    authenticated,  \* ctx.bot.authenticated
    is_owner,     \* what ctx.bot.is_team_owner(ctx.author) gives now
    chk_pc,       \* cog_check: "idle", "waiting" (in wait_for), "done"
    chk_result,   \* how cog_check ended
    chk_waited,   \* seconds spent in wait_for
    chk_seen,     \* history: what the check read (bot.authenticated, the
                  \* event, is_team_owner)
    sh_pc,        \* jsk shell: "idle", "reading" (awaiting a line), "done"
    sh_listed     \* the CommandTask of jsk shell is in the registry

regRest == <<pc, cmd, outer, inner, iter, tick, must_cancel, how, lastReq>>
regVars == <<tasks, task_count, regRest>>
evalVars == <<token, ev_pc, ev_cmd, last_result, result, exc, sent, alerts,
             lost, handle, raised, ret, marks>>
scVars == <<retain, _scope, sc_pc, held, own, locals, arg_dict, inv, last_by,
            withheld, yielded, since>>
exVars == <<code, ip, ex_state, produced, h_pc, events, extra, h_cmd>>
pgVars == <<pg_wrap, pg_content, pg_pages, pg_cursor, pg_closed, pg_controls,
            pg_idle, pg_last>>
auVars == <<authenticated, is_owner, chk_pc, chk_result, chk_waited, chk_seen>>
shVars == <<sh_pc, sh_listed>>
vars == <<regVars, evalVars, scVars, exVars, pgVars, auVars, shVars>>

\* command names that register a task; jsk cancel's `name` argument
Cmds == {"py", "repeat", "debug"}
NoName == ""

\* ----------------------------------------------------------- CommandTask
CommandTask(index, name, task) == [index |-> index, name |-> name, task |-> task]

\* the None that discord.utils.get returns when nothing matches
None == CommandTask(0, "None", 0)

Contains(ts, t) == \E i \in 1..Len(ts) : ts[i] = t

\* deque.remove(t): drops the first element equal to t
RECURSIVE remove(_, _)
remove(ts, t) ==
    IF ts = <<>> THEN <<>>
    ELSE IF Head(ts) = t THEN Tail(ts)
    ELSE <<Head(ts)>> \o remove(Tail(ts), t)

\* a utils.get that falls back to the last element it looked at
utils_get_fallback(ts, index) ==
    IF ts = <<>> THEN None
    ELSE IF \E i \in 1..Len(ts) : ts[i].index = index
         THEN ts[CHOOSE i \in 1..Len(ts) : ts[i].index = index]
         ELSE ts[Len(ts)]

\* discord.utils.get(self.tasks, index=index): the first match, or None
utils_get(ts, index) ==
    LET found == {i \in 1..Len(ts) : ts[i].index = index}
    IN  IF found = {} THEN None
        ELSE ts[CHOOSE i \in found : \A j \in found : i <= j]

\* for task in self.tasks.copy(): if qualified_name == name: self.tasks.remove(task)
RECURSIVE remove_named(_, _, _)
remove_named(copy, ts, name) ==
    IF copy = <<>> THEN ts
    ELSE remove_named(Tail(copy),
                      IF Head(copy).name = name THEN remove(ts, Head(copy)) ELSE ts,
                      name)

\* ---------------------------------------------------------------- submit
\* a submit that numbers the task by the length of the deque
submit_enter_bylen(ts, count, name, task) ==
    LET cmdtask == CommandTask(Len(ts) + 1, name, task)
    IN  [tasks |-> Append(ts, cmdtask), task_count |-> count + 1, cmdtask |-> cmdtask]

\* entering the context manager: count, build the CommandTask, append it
submit_enter(ts, count, name, task) ==
    LET cmdtask == CommandTask(count + 1, name, task)
    IN  [tasks |-> Append(ts, cmdtask), task_count |-> count + 1, cmdtask |-> cmdtask]

\* a submit without the finally clause
submit_exit_keep(ts, cmdtask) == ts

\* the finally clause: if cmdtask in self.tasks: self.tasks.remove(cmdtask)
submit_exit(ts, cmdtask) ==
    IF Contains(ts, cmdtask) THEN remove(ts, cmdtask) ELSE ts

\* ------------------------------------------------------------ jsk_cancel
\* a jsk_cancel that removes the task it finds and forgets task.task.cancel()
jsk_cancel_forget(ts, index, name) ==
    IF ts = <<>>
    THEN [tasks |-> ts, reply |-> "No tasks to cancel.", cancelled |-> {}]
    ELSE LET popped == IF index = -1 /\ name = NoName
                       THEN SubSeq(ts, 1, Len(ts) - 1)
                       ELSE ts
         IN  IF index = -1 /\ name # NoName
             THEN [tasks |-> remove_named(popped, popped, name),
                   reply |-> "Successfully canceled tasks", cancelled |-> {}]
             ELSE LET task == utils_get(popped, index)
                  IN  IF task # None
                      THEN [tasks |-> remove(popped, task),
                            reply |-> "Cancelled task", cancelled |-> {}]
                      ELSE [tasks |-> popped, reply |-> "Unknown task.",
                            cancelled |-> {}]

\* a jsk_cancel whose 'last' takes the oldest task (popleft instead of pop)
jsk_cancel_popleft(ts, index, name) ==
    IF ts = <<>>
    THEN [tasks |-> ts, reply |-> "No tasks to cancel.", cancelled |-> {}]
    ELSE LET popped == IF index = -1 /\ name = NoName THEN Tail(ts) ELSE ts
         IN  IF index = -1 /\ name # NoName
             THEN [tasks |-> remove_named(popped, popped, name),
                   reply |-> "Successfully canceled tasks", cancelled |-> {}]
             ELSE LET task == utils_get(popped, index)
                  IN  IF task # None
                      THEN [tasks |-> remove(popped, task),
                            reply |-> "Cancelled task", cancelled |-> {task}]
                      ELSE [tasks |-> popped, reply |-> "Unknown task.",
                            cancelled |-> {}]

\* the whole handler up to its reply: the deque afterwards, the reply and
\* the CommandTasks whose task.cancel() was called
jsk_cancel(ts, index, name) ==
    IF ts = <<>>
    THEN [tasks |-> ts, reply |-> "No tasks to cancel.", cancelled |-> {}]
    ELSE LET popped == IF index = -1 /\ name = NoName
                       THEN SubSeq(ts, 1, Len(ts) - 1)
                       ELSE ts
         IN  IF index = -1 /\ name # NoName
             THEN [tasks |-> remove_named(popped, popped, name),
                   reply |-> "Successfully canceled tasks", cancelled |-> {}]
             ELSE LET task == utils_get(popped, index)
                  IN  IF task # None
                      THEN [tasks |-> remove(popped, task),
                            reply |-> "Cancelled task", cancelled |-> {task}]
                      ELSE [tasks |-> popped, reply |-> "Unknown task.",
                            cancelled |-> {}]

\* jsk_tasks: the indices it prints, in the order it prints them
jsk_tasks(ts) == [i \in 1..Len(ts) |-> ts[i].index]

\* ==========================================================================
\* Evaluation: jsk py / jsk py_inspect handle the values AsyncCodeExecutor
\* yields, and ReplResponseReactor renders what the wrapped block raised.
\* ==========================================================================

\* characters of the modelled texts: "q" stands for the backquote and "z"
\* for the zero-width space U+200B, which only replace() adds
Chars == {"a", ".", "q"}
Backquote == "q"
Zwsp == "z"
Strings == UNION {[1..n -> Chars] : n \in 0..MaxLen}

\* self.bot.http.token: one with two dot-delimited fragments, one without a dot
Tokens == {<<"a", ".", "a">>, <<"a", "a">>}

\* the marker the handlers assign to result before they return
Hidden == <<"[hidden]">>

\* x in s
IsSubstring(x, s) ==
    \E i \in 0..(Len(s) - Len(x)) : SubSeq(s, i + 1, i + Len(x)) = x

\* s.split('.')
RECURSIVE split(_)
split(s) ==
    LET dots == {i \in 1..Len(s) : s[i] = "."}
    IN  IF dots = {} THEN <<s>>
        ELSE LET i == CHOOSE d \in dots : \A e \in dots : d <= e
             IN  <<SubSeq(s, 1, i - 1)>> \o split(SubSeq(s, i + 1, Len(s)))

\* s.replace(two backquotes, backquote + U+200B + backquote)
RECURSIVE replace(_)
replace(s) ==
    IF Len(s) < 2 THEN s
    ELSE IF s[1] = Backquote /\ s[2] = Backquote
         THEN <<Backquote, Zwsp, Backquote>> \o replace(SubSeq(s, 3, Len(s)))
         ELSE <<s[1]>> \o replace(Tail(s))

\* a scan that looks for the whole token only
scan_whole(tok, resultstr) == IsSubstring(tok, resultstr)

\* the two tests of the handlers: token in resultstr, then
\* any(x in resultstr for x in token.split('.'))
scan(tok, resultstr) ==
    \/ IsSubstring(tok, resultstr)
    \/ \E k \in 1..Len(split(tok)) : IsSubstring(split(tok)[k], resultstr)

\* ------------------------------------------------------ produced values
\* kind  what isinstance() tells the handler
\* s     str(result)
\* r     repr(result): a str's is its text in quotes, an object's is its
\*       own, and a discord object, which defines no __str__, has r = s
\* body  what a File, an Embed or a PaginatorInterface shows when it is sent
\* pad   further characters of s and r (none of them part of a token)
\* newer result.id > ctx.message.id, for a discord.Message
Kinds == {"str", "obj", "File", "Embed", "PaginatorInterface", "Message"}

NoneValue == [kind |-> "None", s |-> <<"N", "o", "n", "e">>,
              r |-> <<"N", "o", "n", "e">>, body |-> <<>>, pad |-> 0,
              newer |-> FALSE]

\* the texts of objects are short
ShortStrings == {<<>>, <<"a">>}

Quoted(t) == <<"'">> \o t \o <<"'">>

Values ==
    {NoneValue}
    \cup {[kind |-> "str", s |-> t, r |-> Quoted(t), body |-> <<>>, pad |-> 0,
           newer |-> FALSE] : t \in Strings \cup Tokens}
    \cup {[kind |-> "str", s |-> t, r |-> Quoted(t), body |-> <<>>,
           pad |-> InlineLimit, newer |-> FALSE] : t \in ShortStrings}
    \cup {[kind |-> "obj", s |-> t, r |-> u, body |-> <<>>, pad |-> 0,
           newer |-> FALSE] : t \in ShortStrings, u \in ShortStrings}
    \cup {[kind |-> k, s |-> t, r |-> t, body |-> u, pad |-> 0,
           newer |-> FALSE] :
             k \in {"File", "Embed", "PaginatorInterface"},
             t \in ShortStrings, u \in ShortStrings}
    \cup {[kind |-> "Message", s |-> t, r |-> t, body |-> <<>>, pad |-> 0,
           newer |-> b] : t \in ShortStrings, b \in BOOLEAN}

\* str(exc_val) of the exceptions raised in the block
Messages == Tokens \cup {<<>>, <<Backquote, Backquote, "a">>}

\* str(exc_val) of the SyntaxError a snippet fails to compile with
SyntaxMessages == {<<Backquote, Backquote, "a">>}

\* one call on a display surface
Op(to, what, how_, text, len) ==
    [to |-> to, what |-> what, how |-> how_, text |-> text, len |-> len]

SendOrEdit(edit) == IF edit THEN "edit" ELSE "send"

NoValue == [kind |-> "none", s |-> <<>>, r |-> <<>>, body |-> <<>>, pad |-> 0,
            newer |-> FALSE]
\* phase: "compile" when the executor's constructor raised, "run" when the
\* running snippet (or the handler) did
NoExc == [kind |-> "none", msg |-> <<>>, phase |-> "none"]

\* the exceptions ReplResponseReactor.__aexit__ renders inline
UserErrors == {"DiscordException", "NameError", "AttributeError", "ZeroDivisionError"}
\* a reactor that gives SyntaxError no short traceback
ShortErrors_nosyntax == {"TimeoutError", "TimeoutExpired"}
\* the exceptions it sends to the channel as a short traceback
ShortErrors == {"SyntaxError", "TimeoutError", "TimeoutExpired"}
\* the exceptions raised in the model
ExcKinds == {"NameError", "DiscordException", "SyntaxError", "TimeoutError",
             "CancelledError", "RuntimeError"}

\* commands wrapped by ReplResponseReactor; only the first two pull values
EvalCmds == {"py", "py_inspect", "shell"}

\* repr(result)
repr(v) == v.r

\* header[0:482] + "..." when len(header) > 485
Header(text, pad) ==
    IF Len(text) + pad > HeaderLimit
    THEN [text |-> text \o <<".", ".", ".">>, len |-> HeaderLimit]
    ELSE [text |-> text, len |-> Len(text) + pad]

\* pushbullet('note', 'Attempted Token Leak', f'{ctx.author} attempted ...')
pushbullet(who) == [title |-> "Attempted Token Leak", who |-> who]

\* a handler that goes on to the fragment test after the whole-token alert
leak_alerts_both(tok, resultstr, who) ==
    (IF IsSubstring(tok, resultstr) THEN <<pushbullet(who)>> ELSE <<>>) \o
    (IF \E k \in 1..Len(split(tok)) : IsSubstring(split(tok)[k], resultstr)
     THEN <<pushbullet(who)>> ELSE <<>>)

\* the pushbullet calls of the two token tests: each test that matches
\* alerts and returns, so the second is reached only when the first failed
leak_alerts(tok, resultstr, who) ==
    IF IsSubstring(tok, resultstr) THEN <<pushbullet(who)>>
    ELSE IF \E k \in 1..Len(split(tok)) : IsSubstring(split(tok)[k], resultstr)
         THEN <<pushbullet(who)>>
         ELSE <<>>

\* the body of jsk_python's `async for` for one value: the display calls,
\* the alerts, the new last_result, what `result` holds at the end and
\* whether the handler returned
jsk_python(tok, last, v, edit, edit_pag) ==
    IF v.kind = "None"
    THEN [sent |-> <<>>, alerts |-> <<>>, last |-> last, result |-> v.s, ret |-> FALSE]
    ELSE IF scan(tok, v.s)
    THEN [sent |-> <<>>, alerts |-> leak_alerts(tok, v.s, "author"), last |-> v,
          result |-> Hidden, ret |-> TRUE]
    ELSE IF v.kind = "File"
    THEN [sent |-> <<Op("channel", "file", "send", v.body, Len(v.body))>>,
          alerts |-> <<>>, last |-> v, result |-> v.s, ret |-> FALSE]
    ELSE IF v.kind = "Embed"
    THEN [sent |-> <<Op("channel", "embed", SendOrEdit(edit), v.body,
                     Len(v.body))>>,
          alerts |-> <<>>, last |-> v, result |-> v.s, ret |-> FALSE]
    ELSE IF v.kind = "PaginatorInterface"
    THEN [sent |-> <<Op("channel", "interface", SendOrEdit(edit), v.body,
                     Len(v.body))>>,
          alerts |-> <<>>, last |-> v, result |-> v.s, ret |-> FALSE]
    ELSE IF v.kind = "Message" /\ v.newer
    THEN [sent |-> <<>>, alerts |-> <<>>, last |-> v, result |-> v.s, ret |-> TRUE]
    ELSE LET text == replace(IF v.kind = "str" THEN v.s ELSE repr(v))
             len == Len(text) + v.pad
         IN  IF len > InlineLimit
             THEN [sent |-> <<Op("channel", "summary", SendOrEdit(edit), <<>>, 0),
                              Op("channel", "paginator", SendOrEdit(edit_pag), text, len)>>,
                   alerts |-> <<>>, last |-> v, result |-> text, ret |-> FALSE]
             ELSE LET out == IF text = <<>> THEN <<Zwsp>> ELSE text
                  IN  [sent |-> <<Op("channel", "output", SendOrEdit(edit), out,
                                     Len(out) + v.pad)>>,
                       alerts |-> <<>>, last |-> v, result |-> out, ret |-> FALSE]

\* the body of jsk_python_inspect's `async for` for one value
jsk_python_inspect(tok, last, v) ==
    IF scan(tok, v.s)
    THEN [sent |-> <<>>, alerts |-> leak_alerts(tok, v.s, "author"), last |-> v,
          result |-> Hidden, ret |-> TRUE]
    ELSE LET header == Header(replace(repr(v)), v.pad)
         IN  [sent |-> <<Op("channel", "inspect", "send", header.text, header.len)>>,
              alerts |-> <<>>, last |-> v, result |-> v.s, ret |-> FALSE]

\* traceback.format_exception(...) joined, with replace(): the frames carry
\* no text of the exception, the last line carries str(exc_val)
traceback_content(e) == replace(e.msg)

\* send_traceback(destination, verbosity, ...): one send per page
send_traceback(destination, verbosity, e) ==
    <<Op(destination, IF verbosity = 0 THEN "traceback0" ELSE "traceback8",
         "send", traceback_content(e), Len(traceback_content(e)))>>

\* attempt_add_reaction on the invoking message
Reaction(emoji) == Op("message", emoji, "send", <<>>, 0)

IsReaction(op) == op.to = "message"

\* the emoji of the reactions among the calls, in order
Emojis(ops) ==
    [i \in 1..Len(SelectSeq(ops, IsReaction)) |-> SelectSeq(ops, IsReaction)[i].what]

\* a reactor that sends every error to the author
render_error_dm(c, e) == send_traceback("author", 8, e)

\* a reactor that sends the deep traceback of an unexpected error to the channel
render_error_public(c, e) ==
    IF e.kind \in UserErrors
    THEN IF c = "py"
         THEN <<Op("channel", "error", "send", e.msg, Len(e.msg))>>
         ELSE IF c = "py_inspect"
         THEN <<Op("channel", "error_inspect", "send",
                   Header(e.msg, 0).text, Header(e.msg, 0).len)>>
         ELSE send_traceback("author", 8, e)
    ELSE IF e.kind \in ShortErrors
    THEN send_traceback("channel", 0, e)
    ELSE send_traceback("channel", 8, e)

\* the rendering ReplResponseReactor.__aexit__ chooses by the exception's
\* class and the command's name
render_error(c, e) ==
    IF e.kind \in UserErrors
    THEN IF c = "py"
         THEN <<Op("channel", "error", "send", e.msg, Len(e.msg))>>
         ELSE IF c = "py_inspect"
         THEN <<Op("channel", "error_inspect", "send",
                   Header(e.msg, 0).text, Header(e.msg, 0).len)>>
         ELSE send_traceback("author", 8, e)
    ELSE IF e.kind \in ShortErrors
    THEN send_traceback("channel", 0, e)
    ELSE send_traceback("author", 8, e)

\* a reactor that leaves its timer alone on exit
handle_cancel_noop(h) == h

\* self.handle.cancel(): a task that has not finished is cancelled, also
\* when its sleep is over and it has not been resumed yet
handle_cancel(h) == IF h \in {"sleeping", "due"} THEN "cancelled" ELSE h

\* __aexit__ without an exception: the check mark (attempt_add_reaction
\* ignores discord.HTTPException), then `return`
aexit_ok(react_ok) ==
    [sent |-> <<Reaction("check")>>,
     lost |-> IF react_ok THEN {} ELSE {1},
     raised |-> FALSE,
     ret |-> "None"]

\* a reactor that forgets to set its flag
aexit_error_unflagged(c, e, react_ok, send_ok) ==
    [sent |-> <<Reaction("xmark")>> \o render_error(c, e),
     lost |-> (IF react_ok THEN {} ELSE {1}) \cup (IF send_ok THEN {} ELSE {2}),
     raised |-> FALSE,
     ret |-> IF send_ok THEN "True" ELSE "raise"]

\* a reactor that absorbs only the errors it renders on the channel
aexit_error_reraise(c, e, react_ok, send_ok) ==
    [sent |-> <<Reaction("xmark")>> \o render_error(c, e),
     lost |-> (IF react_ok THEN {} ELSE {1}) \cup (IF send_ok THEN {} ELSE {2}),
     raised |-> TRUE,
     ret |-> IF ~send_ok THEN "raise"
             ELSE IF (<<Reaction("xmark")>> \o render_error(c, e))[2].to = "channel"
             THEN "True" ELSE "None"]

\* a reactor that ignores a failed send the way it ignores a failed reaction
aexit_error_quiet(c, e, react_ok, send_ok) ==
    [sent |-> <<Reaction("xmark")>> \o render_error(c, e),
     lost |-> (IF react_ok THEN {} ELSE {1}) \cup (IF send_ok THEN {} ELSE {2}),
     raised |-> TRUE,
     ret |-> "True"]

\* __aexit__ with an exception: raised is set, the reaction is attempted,
\* then the rendering is sent; a send that fails raises out of __aexit__,
\* otherwise __aexit__ returns True
aexit_error(c, e, react_ok, send_ok) ==
    [sent |-> <<Reaction("xmark")>> \o render_error(c, e),
     lost |-> (IF react_ok THEN {} ELSE {1}) \cup (IF send_ok THEN {} ELSE {2}),
     raised |-> TRUE,
     ret |-> IF send_ok THEN "True" ELSE "raise"]

\* no evaluation is running (the state of the evaluation part in Spec)
EvalIdle ==
    /\ token = <<"a", ".", "a">>
    /\ ev_pc = "idle"
    /\ ev_cmd = "none"
    /\ last_result = NoneValue
    /\ result = NoValue
    /\ exc = NoExc
    /\ sent = <<>>
    /\ alerts = <<>>
    /\ lost = {}
    /\ handle = "none"
    /\ raised = FALSE
    /\ ret = "none"
    /\ marks = <<>>

\* ==========================================================================
\* Scopes: the scope property, jsk retain and the scope a snippet runs against.
\* A binding is the number of the snippet that assigned it, 0 when unbound.
\* ==========================================================================
Names == {"x", "y"}
Injected == {"_", "ctx"}
Unbound == 0

\* Scope(): no bindings
Scope == [n \in Names \cup Injected |-> Unbound]

\* the value a snippet reads from a binding and yields
SomeObject == [kind |-> "obj", s |-> <<>>, r |-> <<>>, body |-> <<>>, pad |-> 0,
               newer |-> FALSE]

\* a scope property that always makes a new Scope
scope_fresh(retain_) == "new"

\* a scope property that hands out the stored scope whatever retain says
scope_shared(retain_) == "stored"

\* Jishaku.scope: self._scope when retention is on, else a new Scope
scope(retain_) == IF retain_ THEN "stored" ELSE "new"

\* Scope.clean(): the injected variables of an earlier run are dropped
clean(sc) == [n \in DOMAIN sc |-> IF n \in Injected THEN Unbound ELSE sc[n]]

\* the executor's write-back when the run is over: the bindings the snippet
\* assigned go into the scope, the injected variables do not
write_back(sc, loc) ==
    [n \in DOMAIN sc |-> IF n \in Names /\ loc[n] # Unbound THEN loc[n] ELSE sc[n]]

\* a handler that stores the last result after the token tests
store_after_scan(last, v, secret) == IF secret THEN last ELSE v

\* self.last_result = result, before the token tests
store(last, v, secret) == v

\* a handler that builds the injected variables once and reuses them
get_var_dict_cached(n, last) ==
    [k \in Injected |-> IF k = "_" THEN last ELSE IF n > 1 THEN 1 ELSE n]

\* get_var_dict_from_ctx(ctx) and arg_dict["_"] = self.last_result
get_var_dict(n, last) == [k \in Injected |-> IF k = "_" THEN last ELSE n]

\* jsk retain <toggle>: the new flag, whether a new Scope is stored, the reply
\* a jsk retain that turns retention on over the scope that is stored
jsk_retain_keep(retain_, toggle) ==
    IF toggle
    THEN [retain |-> TRUE, fresh |-> FALSE, reply |-> "Variable retention is ON."]
    ELSE [retain |-> FALSE, fresh |-> FALSE, reply |-> "Variable retention is OFF."]

jsk_retain(retain_, toggle) ==
    IF toggle
    THEN IF retain_
         THEN [retain |-> retain_, fresh |-> FALSE,
               reply |-> "Variable retention is already set to ON."]
         ELSE [retain |-> TRUE, fresh |-> TRUE,
               reply |-> "Variable retention is ON."]
    ELSE IF ~retain_
         THEN [retain |-> retain_, fresh |-> FALSE,
               reply |-> "Variable retention is already set to OFF."]
         ELSE [retain |-> FALSE, fresh |-> FALSE,
               reply |-> "Variable retention is OFF."]

\* no snippet runs against a scope (the state of this part in Spec and EvalSpec)
ScopeIdle ==
    /\ retain = FALSE
    /\ _scope = Scope
    /\ sc_pc = "idle"
    /\ held = "none"
    /\ own = Scope
    /\ locals = Scope
    /\ arg_dict = get_var_dict(Unbound, Unbound)
    /\ inv = 0
    /\ last_by = 0
    /\ withheld = FALSE
    /\ yielded = 0
    /\ since = 0


\* ==========================================================================
\* the executor: a snippet becomes a lazily produced sequence of values
Yields == {"yield", "yield None", "yield secret"}
\* bare expression statements
Exprs == {"expr", "expr None", "expr secret"}
Statements == Yields \cup Exprs \cup {"assign", "raise"}
Snippets == UNION {[1..n -> Statements] : n \in 1..MaxStmts}

\* an element of the sequence: the statement that produced it, whether the
\* value is None, and whether its text holds the token or a fragment of it
NoElement == [at |-> 0, none |-> FALSE, secret |-> FALSE]
Element(code_, j) ==
    [at |-> j, none |-> code_[j] \in {"yield None", "expr None"},
     secret |-> code_[j] \in {"yield secret", "expr secret"}]

\* an executor that emits the value of every bare expression
Emits_every_expr(code_, j) == code_[j] \in Yields \cup Exprs

\* the statement emits a value: an explicit yield, or a bare expression that
\* is the last statement of the snippet
Emits(code_, j) ==
    code_[j] \in Yields \/ (j = Len(code_) /\ code_[j] \in Exprs)

\* the statement hands control to the consumer
Stops(code_, j) == Emits(code_, j) \/ code_[j] = "raise"

\* user code is resumed after statement ip_ and runs to the next statement
\* that emits or raises, or to the end of the snippet
resume(code_, ip_) ==
    IF \E j \in (ip_ + 1)..Len(code_) : Stops(code_, j)
    THEN LET j == CHOOSE k \in (ip_ + 1)..Len(code_) :
                      /\ Stops(code_, k)
                      /\ \A m \in (ip_ + 1)..(k - 1) : ~Stops(code_, m)
         IN  IF code_[j] = "raise"
             THEN [state |-> "failed", ip |-> j, el |-> NoElement]
             ELSE [state |-> "suspended", ip |-> j, el |-> Element(code_, j)]
    ELSE [state |-> "exhausted", ip |-> Len(code_), el |-> NoElement]

\* a sequence that starts over when it is pulled after it ended
anext_restart(code_, ip_, st) ==
    IF st # "suspended" THEN resume(code_, 0) ELSE resume(code_, ip_)

\* one pull: a sequence that has ended stays ended and runs nothing
anext(code_, ip_, st) ==
    IF st # "suspended"
    THEN [state |-> st, ip |-> ip_, el |-> NoElement]
    ELSE resume(code_, ip_)

\* a loop that pulls the next value without rendering the one it has
async_for_eager(r, c) ==
    IF r.state # "suspended" THEN "left" ELSE "pull"

\* where the handler's `async for` goes with what a pull gave: out of the
\* block when the sequence ended, in jsk_python back to the pull for None
\* (`continue`), into the loop body otherwise
async_for(r, c) ==
    IF r.state # "suspended" THEN "left"
    ELSE IF r.el.none /\ c = "py" THEN "pull"
    ELSE "render"

\* a loop body that renders the value whatever the token tests say
loop_body_render(el, newer) == "render"

\* what the loop body does with the value: it returns when one of the token
\* tests matches ("hidden") and, in jsk_python, for a Message newer than the
\* invoking one; else it renders the value
loop_body(el, newer) ==
    IF el.secret THEN "hidden"
    ELSE IF newer THEN "newer"
    ELSE "render"

Event(what, at, ip_) == [what |-> what, at |-> at, ip |-> ip_]

\* no executor exists (the state of this part in the other specifications)
ExecIdle ==
    /\ code = <<>>
    /\ ip = 0
    /\ ex_state = "none"
    /\ produced = <<>>
    /\ h_pc = "none"
    /\ events = <<>>
    /\ extra = 0
    /\ h_cmd = "none"

\* ==========================================================================
\* the paginator and its interactive session
PgChars == {"a", "b"}
Lines == UNION {[1..n -> PgChars] : n \in 1..2}

\* commands.Paginator(prefix='', suffix='')
Plain == [prefix |-> <<>>, suffix |-> <<>>]
\* WrappedPaginator(prefix='```py', suffix='```', max_size=1985): a prefix
\* and a suffix around every page, one character each here
CodeBlock == [prefix |-> <<Backquote>>, suffix |-> <<Backquote>>]

\* the characters of content a page has room for: prefix and suffix are
\* characters of the page and count in its maximum size
Capacity(wrap) == MaxPageSize - Len(wrap.prefix) - Len(wrap.suffix)

\* the content of a page: the page without its prefix and suffix
Body(wrap, page) ==
    SubSeq(page, Len(wrap.prefix) + 1, Len(page) - Len(wrap.suffix))

\* a paginator that puts one character more than a page has room for
put_overfull(wrap, bodies, c) ==
    IF bodies = <<>> \/ Len(bodies[Len(bodies)]) > Capacity(wrap)
    THEN Append(bodies, <<c>>)
    ELSE [bodies EXCEPT ![Len(bodies)] = Append(@, c)]

\* one more character: on the last page while it has room, else on a new page
put(wrap, bodies, c) ==
    IF bodies = <<>> \/ Len(bodies[Len(bodies)]) >= Capacity(wrap)
    THEN Append(bodies, <<c>>)
    ELSE [bodies EXCEPT ![Len(bodies)] = Append(@, c)]

RECURSIVE fill(_, _, _)
fill(wrap, bodies, text) ==
    IF text = <<>> THEN bodies
    ELSE fill(wrap, put(wrap, bodies, Head(text)), Tail(text))

\* add_line(text): the text is appended to the content and the trailing
\* region is paginated again; the pages before the last are not touched
add_line(wrap, pages, text) ==
    LET bodies == [i \in 1..Len(pages) |-> Body(wrap, pages[i])]
        new == fill(wrap, bodies, text)
    IN  [i \in 1..Len(new) |-> wrap.prefix \o new[i] \o wrap.suffix]

\* the cursor after add_line: it follows the last page when it pointed at it
track(cursor, before, after) ==
    IF cursor = before - 1 THEN after - 1 ELSE cursor

Directions == {"first", "previous", "next", "last", "close"}

\* a session that moves its cursor without looking at the page count
navigate_unclamped(cursor, n, closed, direction) ==
    IF closed THEN [cursor |-> cursor, closed |-> TRUE]
    ELSE IF direction = "close" THEN [cursor |-> cursor, closed |-> TRUE]
    ELSE IF direction = "first" THEN [cursor |-> 0, closed |-> FALSE]
    ELSE IF direction = "last" THEN [cursor |-> n - 1, closed |-> FALSE]
    ELSE IF direction = "previous" THEN [cursor |-> cursor - 1, closed |-> FALSE]
    ELSE [cursor |-> cursor + 1, closed |-> FALSE]

\* a session that `first` opens again
navigate_reopen(cursor, n, closed, direction) ==
    IF direction = "first" THEN [cursor |-> 0, closed |-> FALSE]
    ELSE IF closed \/ direction = "close" THEN [cursor |-> cursor, closed |-> TRUE]
    ELSE IF direction = "last" THEN [cursor |-> n - 1, closed |-> FALSE]
    ELSE IF direction = "previous"
    THEN [cursor |-> IF cursor > 0 THEN cursor - 1 ELSE 0, closed |-> FALSE]
    ELSE [cursor |-> IF cursor < n - 1 THEN cursor + 1 ELSE cursor, closed |-> FALSE]

\* navigate(direction): void on a closed session; close closes; the other
\* directions move the cursor within the pages
navigate(cursor, n, closed, direction) ==
    IF closed THEN [cursor |-> cursor, closed |-> TRUE]
    ELSE IF direction = "close" THEN [cursor |-> cursor, closed |-> TRUE]
    ELSE IF direction = "first" THEN [cursor |-> 0, closed |-> FALSE]
    ELSE IF direction = "last" THEN [cursor |-> n - 1, closed |-> FALSE]
    ELSE IF direction = "previous"
    THEN [cursor |-> IF cursor > 0 THEN cursor - 1 ELSE 0, closed |-> FALSE]
    ELSE [cursor |-> IF cursor < n - 1 THEN cursor + 1 ELSE cursor, closed |-> FALSE]

\* a session whose idle window goes on through navigation and updates
touch_ignored(idle) == idle

\* a navigation or a content update starts the idle window again
touch(idle) == 0

\* no session exists (the state of this part in the other specifications)
PagIdle ==
    /\ pg_wrap = Plain
    /\ pg_content = <<>>
    /\ pg_pages = <<>>
    /\ pg_cursor = 0
    /\ pg_closed = TRUE
    /\ pg_controls = FALSE
    /\ pg_idle = 0
    /\ pg_last = "none"

\* ==========================================================================
\* cog_check, the local check of every command of the cog
Seen(auth, event, owner) == [auth |-> auth, event |-> event, owner |-> owner]
YesNo(b) == IF b THEN "yes" ELSE "no"

\* bot.authenticated is set: the check is the ownership test
when_authenticated(owner) == IF owner THEN "True" ELSE "NotOwner"

\* a check that takes the authentication event for ownership
after_event_trusting(edit_ok, owner) ==
    IF ~edit_ok THEN "HTTPException" ELSE "True"

\* the event arrived: the notice is edited, then the ownership test decides
after_event(edit_ok, owner) ==
    IF ~edit_ok THEN "HTTPException"
    ELSE IF owner THEN "True"
    ELSE "NotOwner"

\* wait_for timed out: the notice is edited and the function ends without
\* a return value
on_timeout(edit_ok) == IF edit_ok THEN "None" ELSE "HTTPException"

\* no check is running (the state of this part in the other specifications)
AuthIdle ==
    /\ authenticated = TRUE
    /\ is_owner = TRUE
    /\ chk_pc = "idle"
    /\ chk_result = "none"
    /\ chk_waited = 0
    /\ chk_seen = Seen(FALSE, FALSE, "unread")

\* ==========================================================================
\* jsk shell
\* f"\n[status] Return code {reader.close_code}"
StatusLine == <<"s">>

\* no jsk shell is running (the state of this part in the other specifications)
ShellIdle ==
    /\ sh_pc = "idle"
    /\ sh_listed = FALSE

\* ------------------------------------------------------------------ Init
NoReq == [op |-> "none", index |-> 0, name |-> NoName, before |-> <<>>,
          reply |-> "", cancelled |-> {}, lines |-> <<>>]

RegInit ==
    /\ tasks = <<>>
    /\ task_count = 0
    /\ pc = [p \in Procs |-> "idle"]
    /\ cmd = [p \in Procs |-> "none"]
    /\ outer = [p \in Procs |-> 0]
    /\ inner = [p \in Procs |-> 0]
    /\ iter = [p \in Procs |-> 0]
    /\ tick = [p \in Procs |-> 0]
    /\ must_cancel = [p \in Procs |-> FALSE]
    /\ how = [p \in Procs |-> "none"]
    /\ lastReq = NoReq

Init ==
    /\ RegInit
    /\ EvalIdle
    /\ ScopeIdle
    /\ ExecIdle
    /\ PagIdle
    /\ AuthIdle
    /\ ShellIdle

\* the CommandTask an invocation registered under an index
Entry(p, index) == CommandTask(index, IF index = outer[p] THEN cmd[p] ELSE "py", p)

\* inner commands a command invokes: jsk repeat's `times`, one for jsk debug
Times(c) == IF c = "repeat" THEN RepeatTimes ELSE IF c = "debug" THEN 1 ELSE 0

\* registrations an invocation of command c makes
Need(c) == 1 + Times(c)

\* registrations the running invocations 1..n have still to make
RECURSIVE Pending(_)
Pending(n) == IF n = 0 THEN 0 ELSE Times(cmd[n]) - iter[n] + Pending(n - 1)

\* the invocation's coroutine has returned (or raised into the framework)
Finish(p) ==
    /\ pc' = [pc EXCEPT ![p] = "idle"]
    /\ cmd' = [cmd EXCEPT ![p] = "none"]
    /\ outer' = [outer EXCEPT ![p] = 0]
    /\ inner' = [inner EXCEPT ![p] = 0]
    /\ iter' = [iter EXCEPT ![p] = 0]
    /\ how' = [how EXCEPT ![p] = "none"]

\* --------------------------------------------------------------- actions
\* a command starts and runs up to its first suspension point.
\* jsk py: `with self.submit(ctx)` and then the executor's first await;
\* jsk repeat / jsk debug: `with self.submit(ctx)` and then the await that
\* invokes the inner command.
Invoke(p, c) ==
    /\ pc[p] = "idle"
    /\ task_count + Pending(NumProcs) + Need(c) <= MaxTasks
    /\ LET r == submit_enter(tasks, task_count, c, p)
       IN  /\ tasks' = r.tasks
           /\ task_count' = r.task_count
           /\ IF c = "py"
              THEN /\ inner' = [inner EXCEPT ![p] = r.cmdtask.index]
                   /\ outer' = outer
                   /\ pc' = [pc EXCEPT ![p] = "body"]
              ELSE /\ outer' = [outer EXCEPT ![p] = r.cmdtask.index]
                   /\ inner' = inner
                   /\ pc' = [pc EXCEPT ![p] = "loop"]
    /\ cmd' = [cmd EXCEPT ![p] = c]
    /\ lastReq' = NoReq
    /\ UNCHANGED <<evalVars, scVars, exVars, pgVars, auVars, shVars>>
    /\ UNCHANGED <<iter, tick, must_cancel, how>>

\* jsk repeat / jsk debug invoke the inner jsk py, which registers itself
InnerStart(p) ==
    /\ pc[p] = "loop"
    /\ ~must_cancel[p]
    /\ iter[p] < Times(cmd[p])
    /\ LET r == submit_enter(tasks, task_count, "py", p)
       IN  /\ tasks' = r.tasks
           /\ task_count' = r.task_count
           /\ inner' = [inner EXCEPT ![p] = r.cmdtask.index]
    /\ iter' = [iter EXCEPT ![p] = iter[p] + 1]
    /\ pc' = [pc EXCEPT ![p] = "body"]
    /\ lastReq' = NoReq
    /\ UNCHANGED <<evalVars, scVars, exVars, pgVars, auVars, shVars>>
    /\ UNCHANGED <<cmd, outer, tick, must_cancel, how>>

\* CancelledError is raised at the await of jsk repeat / jsk debug itself:
\* the outer submit block unwinds and the command ends
LoopDeliver(p) ==
    /\ pc[p] = "loop"
    /\ must_cancel[p]
    /\ tasks' = submit_exit(tasks, Entry(p, outer[p]))
    /\ must_cancel' = [must_cancel EXCEPT ![p] = FALSE]
    /\ Finish(p)
    /\ lastReq' = NoReq
    /\ UNCHANGED <<evalVars, scVars, exVars, pgVars, auVars, shVars>>
    /\ UNCHANGED <<task_count, tick>>

\* CancelledError is raised inside jsk py's submit block: the finally clause
\* runs and the exception reaches ReplResponseReactor.__aexit__
BodyDeliver(p) ==
    /\ pc[p] = "body"
    /\ must_cancel[p]
    /\ tasks' = submit_exit(tasks, Entry(p, inner[p]))
    /\ inner' = [inner EXCEPT ![p] = 0]
    /\ must_cancel' = [must_cancel EXCEPT ![p] = FALSE]
    /\ how' = [how EXCEPT ![p] = "cancelled"]
    /\ pc' = [pc EXCEPT ![p] = "react"]
    /\ lastReq' = NoReq
    /\ UNCHANGED <<evalVars, scVars, exVars, pgVars, auVars, shVars>>
    /\ tick' = [tick EXCEPT ![p] = 0]
    /\ UNCHANGED <<task_count, cmd, outer, iter>>

\* the snippet is resumed from an await and runs up to its next await
BodyStep(p) ==
    /\ pc[p] = "body"
    /\ ~must_cancel[p]
    /\ tick' = [tick EXCEPT ![p] = 1 - tick[p]]
    /\ lastReq' = NoReq
    /\ UNCHANGED <<evalVars, scVars, exVars, pgVars, auVars, shVars>>
    /\ UNCHANGED <<tasks, task_count, pc, cmd, outer, inner, iter, must_cancel, how>>

\* jsk py's submit block exits on its own: the sequence is exhausted, the
\* snippet raised, or the handler returned early
BodyExit(p, h) ==
    /\ pc[p] = "body"
    /\ ~must_cancel[p]
    /\ tasks' = submit_exit(tasks, Entry(p, inner[p]))
    /\ inner' = [inner EXCEPT ![p] = 0]
    /\ how' = [how EXCEPT ![p] = h]
    /\ pc' = [pc EXCEPT ![p] = "react"]
    /\ lastReq' = NoReq
    /\ UNCHANGED <<evalVars, scVars, exVars, pgVars, auVars, shVars>>
    /\ tick' = [tick EXCEPT ![p] = 0]
    /\ UNCHANGED <<task_count, cmd, outer, iter, must_cancel>>

\* ReplResponseReactor.__aexit__ of jsk py returns True (or None): whatever
\* was raised in the block is absorbed and the caller goes on.  jsk repeat
\* goes to its next iteration, or leaves its submit block after the last one;
\* jsk debug leaves its submit block.
ReactReturn(p) ==
    /\ pc[p] = "react"
    /\ ~must_cancel[p]
    /\ IF iter[p] < Times(cmd[p])
       THEN /\ pc' = [pc EXCEPT ![p] = "loop"]
            /\ how' = [how EXCEPT ![p] = "none"]
            /\ UNCHANGED <<tasks, cmd, outer, inner, iter>>
       ELSE /\ tasks' = IF cmd[p] = "py" THEN tasks
                        ELSE submit_exit(tasks, Entry(p, outer[p]))
            /\ Finish(p)
    /\ lastReq' = NoReq
    /\ UNCHANGED <<evalVars, scVars, exVars, pgVars, auVars, shVars>>
    /\ UNCHANGED <<task_count, tick, must_cancel>>

\* CancelledError is raised at an await inside __aexit__ (the task was
\* cancelled through the CommandTask of the enclosing jsk repeat / jsk debug):
\* it leaves __aexit__ and unwinds the enclosing submit block
ReactDeliver(p) ==
    /\ pc[p] = "react"
    /\ must_cancel[p]
    /\ tasks' = IF cmd[p] = "py" THEN tasks
                ELSE submit_exit(tasks, Entry(p, outer[p]))
    /\ must_cancel' = [must_cancel EXCEPT ![p] = FALSE]
    /\ Finish(p)
    /\ lastReq' = NoReq
    /\ UNCHANGED <<evalVars, scVars, exVars, pgVars, auVars, shVars>>
    /\ UNCHANGED <<task_count, tick>>

\* jsk cancel <index> [name], from an invocation of its own
JskCancel(index, name) ==
    LET r == jsk_cancel(tasks, index, name)
        hit == {t.task : t \in r.cancelled}
    IN  /\ tasks' = r.tasks
        /\ must_cancel' = [p \in Procs |-> must_cancel[p] \/ p \in hit]
        /\ lastReq' = [op |-> "cancel", index |-> index, name |-> name,
                       before |-> tasks, reply |-> r.reply,
                       cancelled |-> r.cancelled, lines |-> <<>>]
        /\ UNCHANGED <<task_count, pc, cmd, outer, inner, iter, tick, how>>
        /\ UNCHANGED <<evalVars, scVars, exVars, pgVars, auVars, shVars>>

\* jsk tasks, from an invocation of its own
JskTasks ==
    /\ lastReq' = [op |-> "tasks", index |-> 0, name |-> NoName,
                   before |-> tasks,
                   reply |-> IF tasks = <<>> THEN "No currently running tasks."
                             ELSE "listing",
                   cancelled |-> {}, lines |-> jsk_tasks(tasks)]
    /\ UNCHANGED <<tasks, task_count, pc, cmd, outer, inner, iter, tick,
                   must_cancel, how>>
    /\ UNCHANGED <<evalVars, scVars, exVars, pgVars, auVars, shVars>>

Next ==
    \/ \E p \in Procs, c \in Cmds : Invoke(p, c)
    \/ \E p \in Procs : InnerStart(p)
    \/ \E p \in Procs : LoopDeliver(p)
    \/ \E p \in Procs : BodyDeliver(p)
    \/ \E p \in Procs : BodyStep(p)
    \/ \E p \in Procs, h \in {"normal", "exception", "return"} : BodyExit(p, h)
    \/ \E p \in Procs : ReactReturn(p)
    \/ \E p \in Procs : ReactDeliver(p)
    \/ \E index \in {-1} \cup (1..MaxTasks), name \in Cmds \cup {NoName} :
          (index # -1 => name = NoName) /\ JskCancel(index, name)
    \/ JskTasks

\* ------------------------------------------------- evaluation actions
\* an evaluation command enters `async with ReplResponseReactor(...)`:
\* __aenter__ creates the do_after_sleep task, and the block runs up to its
\* first await (for jsk py / jsk py_inspect the executor is constructed and
\* its first value is awaited)
EvalStart(c) ==
    /\ ev_pc = "idle"
    /\ ev_pc' = "running"
    /\ ev_cmd' = c
    /\ result' = NoValue
    /\ exc' = NoExc
    /\ sent' = <<>>
    /\ alerts' = <<>>
    /\ lost' = {}
    /\ handle' = "sleeping"
    /\ raised' = FALSE
    /\ ret' = "none"
    /\ marks' = <<>>
    /\ UNCHANGED <<token, last_result>>
    /\ UNCHANGED <<regVars, scVars, exVars, pgVars, auVars, shVars>>

\* the snippet does not compile: the executor's constructor raises
\* SyntaxError inside the block before the first await, and __aexit__
\* handles it in the same step
CompileError(c, m, react_ok, send_ok) ==
    /\ ev_pc = "idle"
    /\ c \in {"py", "py_inspect"}
    /\ LET e == [kind |-> "SyntaxError", msg |-> m, phase |-> "compile"]
           x == aexit_error(c, e, react_ok, send_ok)
       IN  /\ exc' = e
           /\ sent' = x.sent
           /\ lost' = x.lost
           /\ raised' = x.raised
           /\ ret' = x.ret
    /\ ev_pc' = "idle"
    /\ ev_cmd' = c
    /\ result' = NoValue
    /\ alerts' = <<>>
    /\ handle' = handle_cancel("sleeping")
    /\ marks' = Emojis(sent')
    /\ UNCHANGED <<token, last_result>>
    /\ UNCHANGED <<regVars, scVars, exVars, pgVars, auVars, shVars>>

\* the grace delay of do_after_sleep is over: the loop will resume the task
Elapse ==
    /\ handle = "sleeping"
    /\ handle' = "due"
    /\ UNCHANGED <<token, ev_pc, ev_cmd, last_result, result, exc, sent, alerts,
                   lost, raised, ret, marks>>
    /\ UNCHANGED <<regVars, scVars, exVars, pgVars, auVars, shVars>>

\* the loop resumes the do_after_sleep task while the command is suspended
\* (or has finished): it attempts the pending reaction
TimerRun(react_ok) ==
    /\ handle = "due"
    /\ handle' = "done"
    /\ sent' = <<Reaction("play")>>
    /\ marks' = marks \o Emojis(sent')
    /\ lost' = IF react_ok THEN {} ELSE {1}
    /\ alerts' = <<>>
    /\ result' = NoValue
    /\ exc' = NoExc
    /\ UNCHANGED <<token, ev_pc, ev_cmd, last_result, raised, ret>>
    /\ UNCHANGED <<regVars, scVars, exVars, pgVars, auVars, shVars>>

\* the executor yields v and the handler deals with it, up to its next pull
\* or its return; a return leaves the reactor without an exception
\* (react_ok is consulted only then)
Produce(v, edit, edit_pag, react_ok) ==
    /\ ev_pc = "running"
    /\ ev_cmd \in {"py", "py_inspect"}
    /\ LET h == IF ev_cmd = "py"
                THEN jsk_python(token, last_result, v, edit, edit_pag)
                ELSE jsk_python_inspect(token, last_result, v)
           x == aexit_ok(react_ok)
       IN  /\ h.ret \/ react_ok
           /\ sent' = IF h.ret THEN h.sent \o x.sent ELSE h.sent
           /\ lost' = IF h.ret THEN {Len(h.sent) + i : i \in x.lost} ELSE {}
           /\ alerts' = h.alerts
           /\ last_result' = h.last
           /\ ev_pc' = IF h.ret THEN "idle" ELSE "running"
           /\ handle' = IF h.ret THEN handle_cancel(handle) ELSE handle
           /\ ret' = IF h.ret THEN x.ret ELSE ret
           /\ marks' = IF h.ret THEN marks \o Emojis(x.sent) ELSE marks
    /\ result' = v
    /\ exc' = NoExc
    /\ UNCHANGED <<token, ev_cmd, raised>>
    /\ UNCHANGED <<regVars, scVars, exVars, pgVars, auVars, shVars>>

\* the block ends without an exception
Exhaust(react_ok) ==
    /\ ev_pc = "running"
    /\ ev_pc' = "idle"
    /\ LET x == aexit_ok(react_ok)
       IN  /\ sent' = x.sent
           /\ lost' = x.lost
           /\ raised' = x.raised
           /\ ret' = x.ret
    /\ alerts' = <<>>
    /\ result' = NoValue
    /\ exc' = NoExc
    /\ handle' = handle_cancel(handle)
    /\ marks' = marks \o Emojis(sent')
    /\ UNCHANGED <<token, ev_cmd, last_result>>
    /\ UNCHANGED <<regVars, scVars, exVars, pgVars, auVars, shVars>>

\* the block raises e: ReplResponseReactor.__aexit__ renders it
Raise(e, react_ok, send_ok) ==
    /\ ev_pc = "running"
    /\ ev_pc' = "idle"
    /\ LET x == aexit_error(ev_cmd, e, react_ok, send_ok)
       IN  /\ sent' = x.sent
           /\ lost' = x.lost
           /\ raised' = x.raised
           /\ ret' = x.ret
    /\ alerts' = <<>>
    /\ result' = NoValue
    /\ exc' = e
    /\ handle' = handle_cancel(handle)
    /\ marks' = marks \o Emojis(sent')
    /\ UNCHANGED <<token, ev_cmd, last_result>>
    /\ UNCHANGED <<regVars, scVars, exVars, pgVars, auVars, shVars>>

EvalInit ==
    /\ RegInit
    /\ ScopeIdle
    /\ ExecIdle
    /\ PagIdle
    /\ AuthIdle
    /\ ShellIdle
    /\ token \in Tokens
    /\ ev_pc = "idle"
    /\ ev_cmd = "none"
    /\ last_result = NoneValue
    /\ result = NoValue
    /\ exc = NoExc
    /\ sent = <<>>
    /\ alerts = <<>>
    /\ lost = {}
    /\ handle = "none"
    /\ raised = FALSE
    /\ ret = "none"
    /\ marks = <<>>

EvalNext ==
    \/ \E c \in EvalCmds : EvalStart(c)
    \/ \E c \in EvalCmds, m \in SyntaxMessages, react_ok \in BOOLEAN,
          send_ok \in BOOLEAN :
          CompileError(c, m, react_ok, send_ok)
    \/ Elapse
    \/ \E react_ok \in BOOLEAN : TimerRun(react_ok)
    \/ \E v \in Values, edit \in BOOLEAN, edit_pag \in BOOLEAN, react_ok \in BOOLEAN :
          /\ ev_cmd = "py_inspect" => ~edit
          /\ edit_pag => ev_cmd = "py" /\ v.pad > 0
          /\ Produce(v, edit, edit_pag, react_ok)
    \/ \E react_ok \in BOOLEAN : Exhaust(react_ok)
    \/ \E k \in ExcKinds, m \in Messages, react_ok \in BOOLEAN, send_ok \in BOOLEAN :
          Raise([kind |-> k, msg |-> m, phase |-> "run"], react_ok, send_ok)

EvalSpec == EvalInit /\ [][EvalNext]_vars

\* ------------------------------------------------------ scope actions
\* the bindings of the Scope the running snippet holds
HeldScope == IF held = "stored" THEN _scope ELSE own

\* what the running snippet reads under a name: its own assignment, else the
\* injected variable, else the binding of its scope
Visible(n) ==
    IF n \in Names /\ locals[n] # Unbound THEN locals[n]
    ELSE IF n \in Injected THEN arg_dict[n]
    ELSE HeldScope[n]

\* jsk py / jsk py_inspect up to the executor: arg_dict is built, the scope
\* property is read, the scope is cleaned and `_` is injected
ScopeStart ==
    /\ sc_pc = "idle"
    /\ inv < MaxInv
    /\ inv' = inv + 1
    /\ sc_pc' = "running"
    /\ held' = scope(retain)
    /\ IF held' = "stored"
       THEN _scope' = clean(_scope) /\ own' = Scope
       ELSE _scope' = _scope /\ own' = clean(Scope)
    /\ locals' = Scope
    /\ arg_dict' = get_var_dict(inv', last_by)
    /\ UNCHANGED <<retain, last_by, withheld, yielded, since>>
    /\ UNCHANGED <<regVars, evalVars, exVars, pgVars, auVars, shVars>>

\* the snippet assigns a name: an injected variable is rebound for this
\* run, any other name becomes a binding of the snippet
ScopeAssign(n) ==
    /\ sc_pc = "running"
    /\ IF n \in Injected
       THEN arg_dict' = [arg_dict EXCEPT ![n] = inv] /\ locals' = locals
       ELSE locals' = [locals EXCEPT ![n] = inv] /\ arg_dict' = arg_dict
    /\ UNCHANGED <<retain, _scope, sc_pc, held, own, inv, last_by, withheld,
                   yielded, since>>
    /\ UNCHANGED <<regVars, evalVars, exVars, pgVars, auVars, shVars>>

\* the snippet yields what it reads under a name that is bound: the handler
\* stores it as last_result, then tests it for the token; on a match the
\* handler returns, which ends the run
ScopeYield(n, secret) ==
    /\ sc_pc = "running"
    /\ Visible(n) # Unbound
    /\ last_result' = SomeObject
    /\ last_by' = store(last_by, Visible(n), secret)
    /\ yielded' = Visible(n)
    /\ withheld' = secret
    /\ IF secret
       THEN /\ sc_pc' = "idle"
            /\ IF held = "stored"
               THEN _scope' = write_back(_scope, locals)
               ELSE _scope' = _scope
            /\ own' = Scope
            /\ held' = "none"
            /\ locals' = Scope
            /\ arg_dict' = get_var_dict(Unbound, Unbound)
       ELSE UNCHANGED <<_scope, sc_pc, held, own, locals, arg_dict>>
    /\ UNCHANGED <<retain, inv, since>>
    /\ UNCHANGED <<token, ev_pc, ev_cmd, result, exc, sent, alerts, lost, handle,
                   raised, ret, marks>>
    /\ UNCHANGED <<regVars, exVars, pgVars, auVars, shVars>>

\* the run is over, normally or not: the executor writes the snippet's
\* bindings back into the scope it was given
ScopeEnd ==
    /\ sc_pc = "running"
    /\ sc_pc' = "idle"
    /\ IF held = "stored"
       THEN _scope' = write_back(_scope, locals)
       ELSE _scope' = _scope
    /\ own' = Scope
    /\ held' = "none"
    /\ locals' = Scope
    /\ arg_dict' = get_var_dict(Unbound, Unbound)
    /\ UNCHANGED <<retain, inv, last_by, withheld, yielded, since>>
    /\ UNCHANGED <<regVars, evalVars, exVars, pgVars, auVars, shVars>>

\* jsk retain <toggle>, also while a snippet is suspended: a snippet that
\* runs against the stored scope keeps the object that is replaced
JskRetain(toggle) ==
    LET r == jsk_retain(retain, toggle)
    IN  /\ retain' = r.retain
        /\ _scope' = IF r.fresh THEN Scope ELSE _scope
        /\ held' = IF r.fresh /\ held = "stored" THEN "old" ELSE held
        /\ own' = IF r.fresh /\ held = "stored" THEN _scope ELSE own
        /\ since' = IF ~retain /\ r.retain THEN inv ELSE since
        /\ UNCHANGED <<sc_pc, locals, arg_dict, inv, last_by, withheld, yielded>>
        /\ UNCHANGED <<regVars, evalVars, exVars, pgVars, auVars, shVars>>

\* JISHAKU_RETAIN decides the flag at start
ScopeInit ==
    /\ RegInit
    /\ EvalIdle
    /\ ExecIdle
    /\ PagIdle
    /\ AuthIdle
    /\ ShellIdle
    /\ retain \in BOOLEAN
    /\ _scope = Scope
    /\ sc_pc = "idle"
    /\ held = "none"
    /\ own = Scope
    /\ locals = Scope
    /\ arg_dict = get_var_dict(Unbound, Unbound)
    /\ inv = 0
    /\ last_by = 0
    /\ withheld = FALSE
    /\ yielded = 0
    /\ since = 0

ScopeNext ==
    \/ ScopeStart
    \/ \E n \in Names \cup Injected : ScopeAssign(n)
    \/ \E n \in Names \cup {"_"}, secret \in BOOLEAN : ScopeYield(n, secret)
    \/ ScopeEnd
    \/ \E toggle \in BOOLEAN : JskRetain(toggle)

ScopeSpec == ScopeInit /\ [][ScopeNext]_vars

\* ---------------------------------------------------- executor actions
\* the handler enters `with self.submit(ctx)`
HandlerEnter ==
    /\ h_pc = "enter"
    /\ h_pc' = "pull"
    /\ LET r == submit_enter(tasks, task_count, "jsk " \o h_cmd, 1)
       IN  tasks' = r.tasks /\ task_count' = r.task_count
    /\ UNCHANGED <<code, ip, ex_state, produced, events, extra, h_cmd>>
    /\ UNCHANGED <<regRest, evalVars, scVars, pgVars, auVars, shVars>>

\* the handler awaits the next value: user code runs up to it; an error
\* leaves the block for the reactor, which reports it, and the end of the
\* sequence leaves the block normally
HandlerPull ==
    /\ h_pc = "pull"
    /\ LET r == anext(code, ip, ex_state)
       IN  /\ ip' = r.ip
           /\ ex_state' = r.state
           /\ produced' = IF r.el # NoElement THEN Append(produced, r.el) ELSE produced
           /\ h_pc' = async_for(r, h_cmd)
           /\ events' = IF r.state = "failed"
                        THEN Append(events, Event("error", r.ip, r.ip))
                        ELSE IF r.state = "exhausted"
                        THEN Append(events, Event("ok", r.ip, r.ip))
                        ELSE events
    /\ tasks' = IF h_pc' = "left"
                THEN submit_exit(tasks, CommandTask(task_count, "jsk " \o h_cmd, 1))
                ELSE tasks
    /\ UNCHANGED <<code, extra, h_cmd, task_count>>
    /\ UNCHANGED <<regRest, evalVars, scVars, pgVars, auVars, shVars>>

\* the loop body renders the value it holds and the handler pulls again
HandlerRender(newer) ==
    /\ h_pc = "render"
    /\ loop_body(produced[Len(produced)], newer) = "render"
    /\ events' = Append(events, Event("value", produced[Len(produced)].at, ip))
    /\ h_pc' = "pull"
    /\ UNCHANGED <<code, ip, ex_state, produced, extra, h_cmd>>
    /\ UNCHANGED <<regVars, evalVars, scVars, pgVars, auVars, shVars>>

\* the loop body returns without rendering: the block of submit and the
\* reactor are left without an exception
HandlerReturn(newer) ==
    /\ h_pc = "render"
    /\ LET why == loop_body(produced[Len(produced)], newer)
       IN  /\ why # "render"
           /\ events' = events \o <<Event(why, produced[Len(produced)].at, ip),
                                    Event("ok", ip, ip)>>
    /\ h_pc' = "left"
    /\ tasks' = submit_exit(tasks, CommandTask(task_count, "jsk " \o h_cmd, 1))
    /\ UNCHANGED <<code, ip, ex_state, produced, extra, h_cmd, task_count>>
    /\ UNCHANGED <<regRest, evalVars, scVars, pgVars, auVars, shVars>>

\* the sequence is pulled again after it ended
RePull ==
    /\ ex_state \in {"exhausted", "failed"}
    /\ extra < MaxPulls
    /\ extra' = extra + 1
    /\ LET r == anext(code, ip, ex_state)
       IN  /\ ip' = r.ip
           /\ ex_state' = r.state
           /\ produced' = IF r.el # NoElement THEN Append(produced, r.el) ELSE produced
    /\ UNCHANGED <<code, h_pc, events, h_cmd>>
    /\ UNCHANGED <<regVars, evalVars, scVars, pgVars, auVars, shVars>>

\* an executor is built from a snippet and the handler enters its loop
ExecInit ==
    /\ RegInit
    /\ EvalIdle
    /\ ScopeIdle
    /\ PagIdle
    /\ AuthIdle
    /\ ShellIdle
    /\ code \in Snippets
    /\ ip = 0
    /\ ex_state = "suspended"
    /\ produced = <<>>
    /\ h_pc = "enter"
    /\ events = <<>>
    /\ extra = 0
    /\ h_cmd \in {"py", "py_inspect"}

ExecNext ==
    \/ HandlerEnter
    \/ HandlerPull
    \/ \E newer \in BOOLEAN : (newer => h_cmd = "py") /\ HandlerRender(newer)
    \/ \E newer \in BOOLEAN : (newer => h_cmd = "py") /\ HandlerReturn(newer)
    \/ RePull

ExecSpec == ExecInit /\ [][ExecNext]_vars

\* --------------------------------------------------- paginator actions
\* a caller feeds the paginator a line; an open session that displays it
\* keeps its cursor on a valid page and its idle window starts again
PgAddLine(text) ==
    /\ Len(pg_content) + Len(text) <= MaxContent
    /\ pg_content' = pg_content \o text
    /\ pg_pages' = add_line(pg_wrap, pg_pages, text)
    /\ pg_cursor' = IF pg_closed THEN pg_cursor
                    ELSE track(pg_cursor, Len(pg_pages), Len(pg_pages'))
    /\ pg_idle' = IF pg_closed THEN pg_idle ELSE touch(pg_idle)
    /\ pg_last' = "add_line"
    /\ UNCHANGED <<pg_wrap, pg_closed, pg_controls>>
    /\ UNCHANGED <<regVars, evalVars, scVars, exVars, auVars, shVars>>

\* a navigation command arrives for the session
PgNavigate(direction) ==
    /\ LET r == navigate(pg_cursor, Len(pg_pages), pg_closed, direction)
       IN  /\ pg_cursor' = r.cursor
           /\ pg_closed' = r.closed
           /\ pg_controls' = IF r.closed THEN FALSE ELSE pg_controls
           /\ pg_idle' = IF pg_closed \/ r.closed THEN pg_idle ELSE touch(pg_idle)
    /\ pg_last' = direction
    /\ UNCHANGED <<pg_wrap, pg_content, pg_pages>>
    /\ UNCHANGED <<regVars, evalVars, scVars, exVars, auVars, shVars>>

\* time passes on an open session
PgTick ==
    /\ ~pg_closed
    /\ pg_idle < IdleWindow
    /\ pg_idle' = pg_idle + 1
    /\ pg_last' = "tick"
    /\ UNCHANGED <<pg_wrap, pg_content, pg_pages, pg_cursor, pg_closed, pg_controls>>
    /\ UNCHANGED <<regVars, evalVars, scVars, exVars, auVars, shVars>>

\* the idle window is over: the session closes and detaches its controls
PgTimeout ==
    /\ ~pg_closed
    /\ pg_idle = IdleWindow
    /\ pg_closed' = TRUE
    /\ pg_controls' = FALSE
    /\ pg_last' = "timeout"
    /\ UNCHANGED <<pg_wrap, pg_content, pg_pages, pg_cursor, pg_idle>>
    /\ UNCHANGED <<regVars, evalVars, scVars, exVars, auVars, shVars>>

\* a session is opened on a paginator that holds its first line
PagInit ==
    /\ RegInit
    /\ EvalIdle
    /\ ScopeIdle
    /\ ExecIdle
    /\ AuthIdle
    /\ ShellIdle
    /\ pg_wrap \in {Plain, CodeBlock}
    /\ pg_content \in Lines
    /\ pg_pages = add_line(pg_wrap, <<>>, pg_content)
    /\ pg_cursor = 0
    /\ pg_closed = FALSE
    /\ pg_controls = TRUE
    /\ pg_idle = 0
    /\ pg_last = "none"

PagNext ==
    \/ \E text \in Lines : PgAddLine(text)
    \/ \E direction \in Directions : PgNavigate(direction)
    \/ PgTick
    \/ PgTimeout

PagSpec == PagInit /\ [][PagNext]_vars

\* the session's timer runs: time passes, and a window that is over closes
\* the session
FairPagSpec == PagSpec /\ WF_vars(PgTick) /\ WF_vars(PgTimeout)

\* ---------------------------------------------------- cog_check actions
\* a command of the cog is invoked and cog_check runs up to its first wait
CheckStart(send_ok) ==
    /\ chk_pc \in {"idle", "done"}
    /\ chk_waited' = 0
    /\ IF authenticated
       THEN /\ chk_result' = when_authenticated(is_owner)
            /\ chk_seen' = Seen(TRUE, FALSE, YesNo(is_owner))
            /\ chk_pc' = "done"
       ELSE /\ chk_seen' = Seen(FALSE, FALSE, "unread")
            /\ chk_result' = IF send_ok THEN "none" ELSE "HTTPException"
            /\ chk_pc' = IF send_ok THEN "waiting" ELSE "done"
    /\ UNCHANGED <<authenticated, is_owner>>
    /\ UNCHANGED <<regVars, evalVars, scVars, exVars, pgVars, shVars>>

\* a second passes in wait_for
AuthTick ==
    /\ chk_pc = "waiting"
    /\ chk_waited < AuthTimeout
    /\ chk_waited' = chk_waited + 1
    /\ UNCHANGED <<authenticated, is_owner, chk_pc, chk_result, chk_seen>>
    /\ UNCHANGED <<regVars, evalVars, scVars, exVars, pgVars, shVars>>

\* the bot dispatches admin_authenticate; a check that waits for it goes on
Authenticate(edit_ok) ==
    /\ authenticated' = TRUE
    /\ IF chk_pc = "waiting"
       THEN /\ chk_result' = after_event(edit_ok, is_owner)
            /\ chk_seen' = Seen(FALSE, TRUE, IF edit_ok THEN YesNo(is_owner) ELSE "unread")
            /\ chk_pc' = "done"
       ELSE UNCHANGED <<chk_result, chk_seen, chk_pc>>
    /\ UNCHANGED <<is_owner, chk_waited>>
    /\ UNCHANGED <<regVars, evalVars, scVars, exVars, pgVars, shVars>>

\* wait_for raises asyncio.TimeoutError
AuthTimeoutFires(edit_ok) ==
    /\ chk_pc = "waiting"
    /\ chk_waited = AuthTimeout
    /\ chk_result' = on_timeout(edit_ok)
    /\ chk_pc' = "done"
    /\ UNCHANGED <<authenticated, is_owner, chk_waited, chk_seen>>
    /\ UNCHANGED <<regVars, evalVars, scVars, exVars, pgVars, shVars>>

\* the invoker joins or leaves the owners of the bot
OwnerChange ==
    /\ is_owner' = ~is_owner
    /\ UNCHANGED <<authenticated, chk_pc, chk_result, chk_waited, chk_seen>>
    /\ UNCHANGED <<regVars, evalVars, scVars, exVars, pgVars, shVars>>

AuthInit ==
    /\ RegInit
    /\ EvalIdle
    /\ ScopeIdle
    /\ ExecIdle
    /\ PagIdle
    /\ ShellIdle
    /\ authenticated \in BOOLEAN
    /\ is_owner \in BOOLEAN
    /\ chk_pc = "idle"
    /\ chk_result = "none"
    /\ chk_waited = 0
    /\ chk_seen = Seen(FALSE, FALSE, "unread")

AuthNext ==
    \/ \E send_ok \in BOOLEAN : CheckStart(send_ok)
    \/ AuthTick
    \/ \E edit_ok \in BOOLEAN : Authenticate(edit_ok)
    \/ \E edit_ok \in BOOLEAN : AuthTimeoutFires(edit_ok)
    \/ OwnerChange

AuthSpec == AuthInit /\ [][AuthNext]_vars

\* ---------------------------------------------------- jsk shell actions
\* the reader gives a line: the handler returns when the interface is
\* closed, else it adds the line
ShLine(text) ==
    /\ sh_pc = "reading"
    /\ IF pg_closed
       THEN /\ sh_pc' = "done"
            /\ sh_listed' = FALSE
            /\ pg_last' = "return"
            /\ UNCHANGED <<pg_content, pg_pages, pg_cursor, pg_idle>>
       ELSE /\ Len(pg_content) + Len(text) + Len(StatusLine) <= MaxContent
            /\ pg_content' = pg_content \o text
            /\ pg_pages' = add_line(pg_wrap, pg_pages, text)
            /\ pg_cursor' = track(pg_cursor, Len(pg_pages), Len(pg_pages'))
            /\ pg_idle' = touch(pg_idle)
            /\ pg_last' = "add_line"
            /\ UNCHANGED <<sh_pc, sh_listed>>
    /\ UNCHANGED <<pg_wrap, pg_closed, pg_controls>>
    /\ UNCHANGED <<regVars, evalVars, scVars, exVars, auVars>>

\* the process ends without another line: the loop ends, the status line is
\* added and the blocks of the reader, of submit and of the reactor are left
ShEnd ==
    /\ sh_pc = "reading"
    /\ sh_pc' = "done"
    /\ sh_listed' = FALSE
    /\ pg_content' = pg_content \o StatusLine
    /\ pg_pages' = add_line(pg_wrap, pg_pages, StatusLine)
    /\ pg_cursor' = IF pg_closed THEN pg_cursor
                    ELSE track(pg_cursor, Len(pg_pages), Len(pg_pages'))
    /\ pg_idle' = IF pg_closed THEN pg_idle ELSE touch(pg_idle)
    /\ pg_last' = "status"
    /\ UNCHANGED <<pg_wrap, pg_closed, pg_controls>>
    /\ UNCHANGED <<regVars, evalVars, scVars, exVars, auVars>>

\* jsk shell has registered its task, built the paginator with the command
\* line, made the interface and awaits the first line of the reader
ShellInit ==
    /\ RegInit
    /\ EvalIdle
    /\ ScopeIdle
    /\ ExecIdle
    /\ AuthIdle
    /\ sh_pc = "reading"
    /\ sh_listed = TRUE
    /\ pg_wrap = CodeBlock
    /\ pg_content \in Lines
    /\ pg_pages = add_line(pg_wrap, <<>>, pg_content)
    /\ pg_cursor = 0
    /\ pg_closed = FALSE
    /\ pg_controls = TRUE
    /\ pg_idle = 0
    /\ pg_last = "none"

ShellNext ==
    \/ \E text \in Lines : ShLine(text)
    \/ ShEnd
    \/ \E direction \in Directions : PgNavigate(direction)
    \/ PgTick
    \/ PgTimeout

ShellSpec == ShellInit /\ [][ShellNext]_vars

Spec == Init /\ [][Next]_vars

\* The event loop runs every callback it has scheduled: a requested
\* cancellation is delivered, __aexit__ returns, an invoked command starts.
\* A snippet that is resumed runs on (BodyStep), but nothing makes it finish
\* (BodyExit has no fairness).
FairSpec ==
    /\ Spec
    /\ \A p \in Procs :
          /\ WF_vars(LoopDeliver(p))
          /\ WF_vars(BodyDeliver(p))
          /\ WF_vars(ReactDeliver(p))
          /\ WF_vars(ReactReturn(p))
          /\ WF_vars(InnerStart(p))
          /\ WF_vars(BodyStep(p))

\* ------------------------------------------------------- the task registry
Indices(ts) == {ts[i].index : i \in 1..Len(ts)}
Elems(ts) == {ts[i] : i \in 1..Len(ts)}
Without(ts, index) == SelectSeq(ts, LAMBDA t : t.index # index)
OwnedBy(p) == {t \in Elems(tasks) : t.task = p}
Suspended(p) == pc[p] \in {"loop", "body", "react"}

CancelByIndex ==
    /\ lastReq.op = "cancel"
    /\ lastReq.index # -1
    /\ lastReq.index \in Indices(lastReq.before)

CancelLast ==
    /\ lastReq.op = "cancel"
    /\ lastReq.index = -1
    /\ lastReq.name = NoName
    /\ lastReq.before # <<>>

CancelMiss ==
    /\ lastReq.op = "cancel"
    /\ \/ lastReq.before = <<>>
       \/ lastReq.index # -1 /\ lastReq.index \notin Indices(lastReq.before)

\* C1: a cancel request for the index k of a live task removes exactly that
\* task from the registry (the others stay, in the same order), calls the
\* cancel handle of that task and of no other, and leaves the task's
\* operation suspended with the cancellation pending, so that it is raised in it.
C1_CancelIndex ==
    CancelByIndex =>
        /\ tasks = Without(lastReq.before, lastReq.index)
        /\ Len(tasks) = Len(lastReq.before) - 1
        /\ lastReq.cancelled = {t \in Elems(lastReq.before) : t.index = lastReq.index}
        /\ Cardinality(lastReq.cancelled) = 1
        /\ \A t \in lastReq.cancelled : must_cancel[t.task] /\ Suspended(t.task)
        /\ lastReq.reply = "Cancelled task"

C1_Witness ==
    /\ CancelByIndex
    /\ Len(lastReq.before) >= 2
    /\ lastReq.index # lastReq.before[Len(lastReq.before)].index

\* C2: a cancel request with the 'last' sentinel (index -1, no name) on a
\* non-empty registry calls the cancel handle of the most recently registered
\* task and reports that task as cancelled.
C2_CancelLastCancels ==
    CancelLast =>
        /\ lastReq.cancelled = {lastReq.before[Len(lastReq.before)]}
        /\ lastReq.reply = "Cancelled task"

\* C3: a cancel request with the 'last' sentinel on a non-empty registry
\* removes the most recently registered task and no other; the remaining
\* tasks stay listed in registration order.
C3_CancelLastRemoves ==
    CancelLast => tasks = SubSeq(lastReq.before, 1, Len(lastReq.before) - 1)

C3_Witness ==
    /\ CancelLast
    /\ Len(lastReq.before) = 3
    /\ Len(tasks) = 2

\* C4: a cancel request whose index matches no live task (and is not the
\* 'last' sentinel), or that arrives when the registry is empty, reports
\* "Unknown task." / "No tasks to cancel.", leaves the registry unchanged and
\* calls no cancel handle.
C4_CancelMiss ==
    CancelMiss =>
        /\ lastReq.reply = IF lastReq.before = <<>> THEN "No tasks to cancel."
                           ELSE "Unknown task."
        /\ tasks = lastReq.before
        /\ lastReq.cancelled = {}

C4_Witness ==
    /\ CancelMiss
    /\ lastReq.before # <<>>
    /\ lastReq.reply = "Unknown task."

\* C5: cancellation is eventually effective: once the cancel handle of an
\* operation has been called, the operation eventually stops (its coroutine
\* ends) and no registry entry it owns remains listed.
C5_CancelEventuallyStops ==
    \A p \in Procs : must_cancel[p] ~> (pc[p] = "idle" /\ OwnedBy(p) = {})

\* the block a listed task was registered by is still running
InBlock(t) ==
    \/ t.name = "py" /\ t.index = inner[t.task] /\ pc[t.task] = "body"
    \/ t.name = cmd[t.task] /\ t.name # "py" /\ t.index = outer[t.task]
          /\ Suspended(t.task)

\* a step that leaves a submit block removes the block's own task if it is
\* still listed and nothing else
ExitStep(p) ==
    /\ (pc[p] = "body" /\ pc'[p] # "body") => tasks' = Without(tasks, inner[p])
    /\ (pc[p] \in {"loop", "react"} /\ pc'[p] = "idle") =>
            tasks' = Without(tasks, outer[p])

\* C6: a task is listed only while its operation is inside the submitted
\* block; whichever way the block exits (completion, exception, early return,
\* cancellation) the task is not listed afterwards, and when a cancel request
\* already removed it the exit removes nothing.
C6_ListedOnlyInsideBlock ==
    /\ [](\A t \in Elems(tasks) : InBlock(t))
    /\ [][\A p \in Procs : ExitStep(p)]_vars

C6_Witness ==
    \E p \in Procs :
        /\ cmd[p] = "py" /\ pc[p] = "react" /\ how[p] = "cancelled"
        /\ tasks # <<>>

\* a step that enters a submit block appends a task with a fresh index
EnterStep(p) ==
    (pc[p] # "body" /\ pc'[p] = "body") \/ (pc[p] = "idle" /\ pc'[p] = "loop") =>
        /\ task_count' = task_count + 1
        /\ Len(tasks') = Len(tasks) + 1
        /\ SubSeq(tasks', 1, Len(tasks)) = tasks
        /\ tasks'[Len(tasks')].index = task_count'
        /\ tasks'[Len(tasks')].task = p

\* C7: under every interleaving of registrations, completions and cancel
\* requests the registry lists live tasks in registration order with strictly
\* increasing, pairwise distinct indices; every registration is appended, and
\* an index once assigned (all are at most task_count) is never assigned again.
C7_DistinctIncreasingIndices ==
    /\ [](/\ \A i, j \in 1..Len(tasks) : i < j => tasks[i].index < tasks[j].index
          /\ \A i \in 1..Len(tasks) : tasks[i].index \in 1..task_count
          /\ \A i, j \in 1..Len(lastReq.lines) :
                i < j => lastReq.lines[i] < lastReq.lines[j]
          /\ lastReq.op = "tasks" => Len(lastReq.lines) = Len(tasks))
    /\ [][/\ task_count' >= task_count
          /\ \A p \in Procs : EnterStep(p)]_vars

C7_Witness ==
    /\ lastReq.op = "tasks"
    /\ Len(tasks) = 2
    /\ tasks[1].index = 2
    /\ tasks[1].task # tasks[2].task


\* ------------------------------------------------------------ redaction
\* the display calls that show a produced value
ValuePaths == {"file", "embed", "interface", "summary", "paginator", "output",
               "inspect"}

\* the dot-delimited fragments of a text: its maximal runs without a dot
Fragments(t) ==
    {SubSeq(t, i, j) : <<i, j>> \in
        {ij \in (1..Len(t) + 1) \X (0..Len(t)) :
            /\ ij[2] >= ij[1] - 1
            /\ \A k \in ij[1]..ij[2] : t[k] # "."
            /\ ij[1] = 1 \/ t[ij[1] - 1] = "."
            /\ ij[2] = Len(t) \/ t[ij[2] + 1] = "."}}

\* the text contains the secret token, in whole or as one of its fragments
HoldsSecret(text) ==
    \/ IsSubstring(token, text)
    \/ \E f \in Fragments(token) : IsSubstring(f, text)

\* the latest step pulled a value and the handler scanned it
Scanned == result.kind # "none" /\ ~(ev_cmd = "py" /\ result.kind = "None")

\* C8: in jsk py and jsk py_inspect a produced value whose text, str(result),
\* contains the secret token, whole or as one of its dot-delimited fragments,
\* is not sent to a display surface on any rendering path: no display call
\* is made for it and no call carries its text.
C8_SecretValueNotDisplayed ==
    (Scanned /\ HoldsSecret(result.s)) =>
        \A i \in 1..Len(sent) :
            /\ sent[i].what \notin ValuePaths
            /\ ~IsSubstring(result.s, sent[i].text)

C8_Witness ==
    /\ Scanned
    /\ HoldsSecret(result.s)
    /\ ~IsSubstring(token, result.s)
    /\ ev_cmd = "py"
    /\ result.kind = "str"
    /\ Len(alerts) = 1

\* C9: error text is scanned like produced values: when the exception raised
\* by the wrapped block carries the secret token (or a fragment) in its
\* message, no call the Reactor makes, on the channel or to the author,
\* carries it.
C9_ErrorTextScanned ==
    exc.kind # "none" => \A i \in 1..Len(sent) : ~HoldsSecret(sent[i].text)

\* C10: when a produced value matches the secret token or one of its
\* fragments, the fixed marker is displayed in place of the value.
C10_MarkerDisplayed ==
    (Scanned /\ HoldsSecret(result.s)) =>
        \E i \in 1..Len(sent) : sent[i].to = "channel" /\ sent[i].text = Hidden

\* C11: the alert channel is invoked exactly once for each produced value
\* that matches the secret token or a fragment (once, too, when the whole
\* token and a fragment both match), with the invoking user's identity, and
\* it is not invoked for a value that matches neither nor by a step that
\* handles no value.
C11_OneAlertPerMatch ==
    /\ (Scanned /\ HoldsSecret(result.s)) => alerts = <<pushbullet("author")>>
    /\ (Scanned /\ ~HoldsSecret(result.s)) => alerts = <<>>
    /\ ~Scanned => alerts = <<>>

C11_Witness ==
    /\ Scanned
    /\ IsSubstring(token, result.s)
    /\ \E f \in Fragments(token) : f # token /\ IsSubstring(f, result.s)
    /\ ev_cmd = "py_inspect"
    /\ Len(alerts) = 1

\* ------------------------------------------------------------ lifecycle
\* the reactions that end a lifecycle
Terminal == {"check", "xmark"}

\* the error classes of the reactor's contract
UserCodeErrors == {"NameError", "AttributeError", "ZeroDivisionError",
                   "DiscordException"}
CompileErrors == {"SyntaxError"}
TimeoutErrors == {"TimeoutError", "TimeoutExpired"}
CancellationErrors == TimeoutErrors \cup {"CancelledError"}

\* the reactor has been left
Left == ev_pc = "idle" /\ ret # "none"

\* C12: the pending indicator is attempted only by a timer whose delay is
\* over while the wrapped block is still running; leaving the block cancels
\* a timer that has not fired, so no pending indicator follows the success
\* or failure indicator of the same invocation.
C12_PendingOnlyWhileRunning ==
    /\ [](/\ \A i \in 1..Len(marks), j \in 1..Len(marks) :
                (i < j /\ marks[i] \in Terminal) => marks[j] # "play"
          /\ Left => handle \in {"cancelled", "done"})
    /\ [][marks' = Append(marks, "play") => (ev_pc = "running" /\ handle = "due")]_vars

C12_Witness ==
    /\ Left
    /\ handle = "cancelled"
    /\ marks = <<"check">>

\* C13: every wrapped invocation ends with exactly one terminal indicator
\* (a call of attempt_add_reaction): the check mark exactly when the block
\* left without an exception, the x mark otherwise; none while the block
\* runs; raised is true exactly in the failure case.
C13_OneTerminalIndicator ==
    /\ Left =>
          /\ Cardinality({i \in 1..Len(marks) : marks[i] \in Terminal}) = 1
          /\ marks[Len(marks)] = (IF exc.kind = "none" THEN "check" ELSE "xmark")
          /\ raised = (exc.kind # "none")
    /\ ev_pc = "running" =>
          /\ \A i \in 1..Len(marks) : marks[i] \notin Terminal
          /\ ~raised

C13_Witness ==
    /\ Left
    /\ exc.kind = "RuntimeError"
    /\ marks = <<"play", "xmark">>
    /\ raised

C16_CancellationShort ==
    (Left /\ exc.kind \in CancellationErrors) =>
        /\ \E i \in 1..Len(sent) :
              sent[i].to = "channel" /\ sent[i].what = "traceback0"
        /\ \A i \in 1..Len(sent) :
              sent[i].to # "author" /\ sent[i].what # "traceback8"

\* C17: for an error outside the user-code, compile and timeout/cancellation
\* classes the deep diagnostic goes to the author only, nothing goes to the
\* channel and the x mark is attempted on the invoking message; and no deep
\* (verbosity 8) diagnostic is ever sent to the channel.
C17_DeepOnlyPrivate ==
    /\ (Left /\ exc.kind # "none"
             /\ exc.kind \notin UserCodeErrors \cup CompileErrors
                                \cup CancellationErrors) =>
          /\ sent[1] = Reaction("xmark")
          /\ \E i \in 1..Len(sent) :
                sent[i].to = "author" /\ sent[i].what = "traceback8"
          /\ \A i \in 1..Len(sent) : sent[i].to # "channel"
    /\ \A i \in 1..Len(sent) : sent[i].what = "traceback8" => sent[i].to = "author"

C17_Witness ==
    /\ Left
    /\ exc.kind = "RuntimeError"
    /\ sent[2].to = "author"
    /\ sent[2].what = "traceback8"

\* C18: a snippet that fails to compile is reported in the step that starts
\* the command, from a state where no evaluation runs: no value is produced
\* or rendered, the stored last result is untouched, the report is the short
\* (verbosity 0) traceback on the invoking channel, and the invocation is
\* over (the snippet is not run again).
C18_CompileErrorFirst ==
    [][exc'.phase = "compile" =>
          /\ ev_pc = "idle"
          /\ ev_pc' = "idle"
          /\ exc'.kind \in CompileErrors
          /\ result' = NoValue
          /\ last_result' = last_result
          /\ alerts' = <<>>
          /\ Len(sent') = 2
          /\ sent'[2].to = "channel"
          /\ sent'[2].what = "traceback0"
          /\ handle' = "cancelled"]_vars

C18_Witness ==
    /\ exc.phase = "compile"
    /\ ev_cmd = "py"
    /\ sent[2].what = "traceback0"
    /\ marks = <<"xmark">>

\* C19: no error is silently swallowed: when __aexit__ absorbs an error
\* (returns True) at least one of its calls, the reaction or the rendering,
\* went through; when none of them goes through the failure leaves
\* __aexit__ instead.
C19_NoSilentSwallow ==
    (Left /\ exc.kind # "none") =>
        /\ ret = "True" => \E i \in 1..Len(sent) : i \notin lost
        /\ (\A i \in 1..Len(sent) : i \in lost) => ret = "raise"

C19_Witness ==
    /\ Left
    /\ exc.kind = "NameError"
    /\ lost = {1}
    /\ ret = "True"

\* ---------------------------------------------------------------- scopes
\* C20 (as claimed): with retention off when it starts, a snippet sees no
\* binding an earlier snippet assigned and nothing derived from one: every
\* name it can read, `_` included, is unbound or its own.
C20_NothingCarriedOver ==
    (sc_pc = "running" /\ held = "new") =>
        \A n \in Names \cup {"_"} : Visible(n) \in {Unbound, inv}

\* C20 (amended): with retention off when it starts, a snippet runs against
\* a new scope and sees no binding an earlier snippet assigned; the one thing
\* carried over is `_`, the stored last result, which can be a value an
\* earlier snippet read from its bindings.
C20_NoBindingCarriedOver ==
    /\ (sc_pc = "running" /\ held = "new") =>
          /\ \A n \in Names : Visible(n) \in {Unbound, inv}
          /\ \A n \in Names : HeldScope[n] = Unbound
          /\ Visible("_") = arg_dict["_"]
    /\ [][(sc_pc = "idle" /\ sc_pc' = "running") =>
             /\ (~retain) = (held' = "new")
             /\ arg_dict'["_"] = last_by]_vars

C20_Witness ==
    /\ sc_pc = "running"
    /\ held = "new"
    /\ inv = 2
    /\ ~retain
    /\ arg_dict["_"] = 1
    /\ locals["x"] = 2

\* C21: with retention on, a snippet is given the stored scope and sees under
\* every name the binding an earlier snippet left there (clean() keeps it),
\* until it assigns the name itself; when it ends, the bindings it assigned
\* are in the stored scope; and between runs the stored bindings change
\* only when jsk retain changes the flag.
C21_RetainedBindingsVisible ==
    [][/\ (sc_pc = "idle" /\ sc_pc' = "running" /\ retain) =>
             /\ held' = "stored"
             /\ \A n \in Names : Visible(n)' = _scope[n]
       /\ (sc_pc = "running" /\ sc_pc' = "idle" /\ held = "stored") =>
             \A n \in Names :
                 _scope'[n] = IF locals[n] # Unbound THEN locals[n] ELSE _scope[n]
       /\ (sc_pc' = sc_pc /\ retain' = retain) =>
             \A n \in Names : _scope'[n] = _scope[n]]_vars

C21_Witness ==
    /\ sc_pc = "running"
    /\ retain
    /\ held = "stored"
    /\ inv = 2
    /\ Visible("x") = 1
    /\ locals["y"] = 2

\* C22: the injected variables of one call (the context variables and `_`)
\* are never left over for a later call, with retention on or off: no scope
\* ever holds them, and what a running snippet reads under their names is
\* what was injected into its own call (or what it assigned itself).
C22_InjectedNeverLeftOver ==
    /\ \A k \in Injected : _scope[k] = Unbound /\ own[k] = Unbound
    /\ sc_pc = "running" =>
          /\ arg_dict["ctx"] = inv
          /\ \A k \in Injected : Visible(k) = arg_dict[k]
    /\ sc_pc = "idle" => \A k \in Injected : arg_dict[k] = Unbound

C22_Witness ==
    /\ sc_pc = "running"
    /\ retain
    /\ held = "stored"
    /\ inv = 3
    /\ arg_dict["ctx"] = 3
    /\ _scope["x"] = 1

\* ------------------------------------------------------ produced values
\* C23: a produced value that is None is suppressed in every evaluation
\* command: the step that pulls it makes no display call for a value and
\* leaves the carried-over last result as it was.
C23_NoneSuppressed ==
    [][result'.kind = "None" =>
          /\ \A i \in 1..Len(sent') : sent'[i].what \notin ValuePaths
          /\ last_result' = last_result]_vars

\* the statements of the snippet that emit a value, in source order
Emitting ==
    SelectSeq([j \in 1..Len(code) |-> j],
              LAMBDA j : \/ code[j] \in Yields
                         \/ j = Len(code) /\ code[j] \in Exprs)

\* the statements whose values were rendered, in the order of rendering
Shown ==
    LET vals == SelectSeq(events, LAMBDA e : e.what = "value")
    IN  [i \in 1..Len(vals) |-> vals[i].at]

\* the statements whose values were produced and not skipped as None
Renderable ==
    LET els == SelectSeq(produced, LAMBDA e : ~(e.none /\ h_cmd = "py"))
    IN  [i \in 1..Len(els) |-> els[i].at]

IsPrefix(a, b) == Len(a) <= Len(b) /\ a = SubSeq(b, 1, Len(a))

\* C24: within one invocation the values (None apart, which is suppressed)
\* are rendered in program order; a value is rendered while user code
\* stands at the statement that produced it, and user code is resumed only
\* when every value produced so far has been rendered; when an error occurs
\* mid-sequence every value produced before it was rendered before the
\* failure is reported, and nothing is rendered after the report.
C24_RenderedInProgramOrder ==
    /\ IsPrefix(Shown, Renderable)
    /\ \A i \in 1..Len(Shown), j \in 1..Len(Shown) : i < j => Shown[i] < Shown[j]
    /\ \A i \in 1..Len(events) : events[i].what = "value" => events[i].ip = events[i].at
    /\ h_pc = "pull" => Shown = Renderable
    /\ \A i \in 1..Len(events) :
          events[i].what = "error" =>
              /\ i = Len(events)
              /\ Shown = Renderable
              /\ \A k \in 1..Len(Shown) : Shown[k] < events[i].at

C24_Witness ==
    /\ Len(events) = 3
    /\ events[1].what = "value"
    /\ events[2].what = "value"
    /\ events[3].what = "error"
    /\ Len(produced) = 2

\* C25: when a snippet has run to its end, its sequence holds the values of
\* its N explicit yields in source order and then, when the last statement
\* is a bare expression, the value of that expression: N + 1 elements, or N
\* when the snippet ends with any other statement.
C25_YieldsThenTrailingExpression ==
    ex_state = "exhausted" =>
        LET n == Cardinality({j \in 1..Len(code) : code[j] \in Yields})
            trailing == code[Len(code)] \in Exprs
        IN  /\ Len(produced) = IF trailing THEN n + 1 ELSE n
            /\ \A i \in 1..Len(produced), j \in 1..Len(produced) :
                  i < j => produced[i].at < produced[j].at
            /\ \A i \in 1..n : code[produced[i].at] \in Yields
            /\ trailing => produced[n + 1].at = Len(code)

C25_Witness ==
    /\ ex_state = "exhausted"
    /\ code = <<"yield", "expr", "expr">>
    /\ Len(produced) = 2
    /\ produced[2].at = 3

\* C26: the sequence is not restartable: once it is exhausted or has
\* failed, a further pull gives no element, runs no statement and leaves it
\* ended, however often it is repeated.
C26_NotRestartable ==
    [][(ex_state = "exhausted" \/ ex_state = "failed") =>
          /\ produced' = produced
          /\ ip' = ip
          /\ ex_state' = ex_state]_vars

C26_Witness ==
    /\ ex_state = "failed"
    /\ extra = MaxPulls
    /\ ip < Len(code)
    /\ Len(produced) = 1

\* ---------------------------------------------------- paginator sessions
\* C27: Closed is terminal: a closed session stays closed with its controls
\* detached and its cursor where it was, and a navigate command on it
\* changes neither cursor nor pages nor the closed flag.
C27_ClosedIsTerminal ==
    [][pg_closed =>
          /\ pg_closed'
          /\ ~pg_controls'
          /\ pg_cursor' = pg_cursor
          /\ pg_last' \in Directions => pg_pages' = pg_pages]_vars

C27_Witness ==
    /\ pg_closed
    /\ pg_last = "next"
    /\ pg_cursor = 0
    /\ Len(pg_pages) >= 2

\* C28: the cursor of an open session is a valid page index after any
\* sequence of add_line and navigate operations.
C28_CursorValid ==
    ~pg_closed => 0 <= pg_cursor /\ pg_cursor < Len(pg_pages)

C28_Witness ==
    /\ ~pg_closed
    /\ pg_last = "next"
    /\ Len(pg_pages) >= 2
    /\ pg_cursor = Len(pg_pages) - 1
    /\ pg_idle = 0

Ceil(a, b) == (a + b - 1) \div b

RECURSIVE Concat(_)
Concat(ss) == IF ss = <<>> THEN <<>> ELSE Head(ss) \o Concat(Tail(ss))

C30_IdleTimeoutCloses ==
    /\ (<>[](pg_last \in {"none", "tick", "timeout"}))
          => <>(pg_closed /\ ~pg_controls)
    /\ [][/\ (~pg_closed' /\ pg_last' \in Directions \cup {"add_line"}
                 /\ (pg_last' # pg_last \/ pg_cursor' # pg_cursor
                        \/ pg_content' # pg_content))
              => pg_idle' = 0
          /\ (~pg_closed /\ pg_closed' /\ pg_last' = "timeout")
              => pg_idle = IdleWindow]_vars

C30_Witness ==
    /\ pg_closed
    /\ ~pg_controls
    /\ pg_last = "timeout"
    /\ pg_idle = IdleWindow
    /\ Len(pg_pages) >= 2
    /\ pg_cursor = Len(pg_pages) - 1

\* ------------------------------------------------- cancelling by name
\* C33: a cancel request with index -1 and a command name removes from the
\* registry every live task of a command with that name and no other, and
\* calls the cancel handle of each task it removes, so that the cancellation
\* is pending in each of them.
C33_CancelNamedCancels ==
    (/\ lastReq.op = "cancel"
     /\ lastReq.index = -1
     /\ lastReq.name # NoName
     /\ lastReq.before # <<>>) =>
        LET named == {t \in Elems(lastReq.before) : t.name = lastReq.name}
        IN  /\ tasks = SelectSeq(lastReq.before, LAMBDA t : t.name # lastReq.name)
            /\ lastReq.cancelled = named
            /\ \A t \in named : must_cancel[t.task]

\* ------------------------------------------------------ the carry-over
\* C35: the `_` injected into an invocation is the value stored latest as
\* last result, with retention on or off; the value is stored before the
\* token tests, so the stored value is the one yielded latest also when it
\* was withheld.
C35_UnderscoreIsLastStored ==
    /\ [](last_by = yielded)
    /\ [][(sc_pc = "idle" /\ sc_pc' = "running") => arg_dict'["_"] = last_by]_vars

C35_Witness ==
    /\ sc_pc = "running"
    /\ ~retain
    /\ withheld
    /\ yielded = 1
    /\ inv = 2
    /\ arg_dict["_"] = 1

\* C36: jsk retain with the value the flag already has changes neither the
\* flag nor the stored scope; turning retention on installs an empty scope,
\* so the stored scope holds only bindings of snippets started after
\* retention was last turned on, and such a snippet sees no older binding.
C36_RetainToggle ==
    /\ [](/\ jsk_retain(retain, retain).retain = retain
          /\ ~jsk_retain(retain, retain).fresh
          /\ \A n \in Names : _scope[n] = Unbound \/ _scope[n] > since
          /\ (sc_pc = "running" /\ inv > since) =>
                \A n \in Names : Visible(n) = Unbound \/ Visible(n) > since)
    /\ [][(~retain /\ retain') => _scope' = Scope]_vars

C36_Witness ==
    /\ sc_pc = "running"
    /\ retain
    /\ held = "stored"
    /\ since = 1
    /\ inv = 2
    /\ last_by = 1
    /\ Visible("x") = Unbound
    /\ locals["y"] = 2

\* ------------------------------------------------------- the local check
Passed == chk_result = "True"

\* C31: cog_check passes only if the invoker was an owner when the check
\* tested it; when the bot was not authenticated it passes only after the
\* authentication event arrived within the 30 seconds, and a check that
\* timed out has not passed.
C31_OnlyOwnersPass ==
    /\ Passed => chk_pc = "done" /\ chk_seen.owner = "yes"
    /\ (Passed /\ ~chk_seen.auth) => chk_seen.event /\ chk_waited <= AuthTimeout
    /\ (chk_pc = "done" /\ ~chk_seen.auth /\ ~chk_seen.event) => ~Passed

C31_Witness ==
    /\ Passed
    /\ ~chk_seen.auth
    /\ chk_seen.event
    /\ chk_waited = AuthTimeout - 1

\* ------------------------------------------------------------ jsk shell
\* C32: once the interface of jsk shell is closed no line, output or status,
\* is added to it, and the next step of the command ends it with its task
\* deregistered.
C32_CloseStopsShell ==
    [][pg_closed =>
          /\ pg_content' = pg_content
          /\ sh_pc' # sh_pc => (sh_pc' = "done" /\ ~sh_listed')]_vars

\* ------------------------------------------------- redaction ends the run
\* C34: when a produced value matches the token in jsk py or jsk py_inspect
\* the invocation stops there: the value is the last one pulled, user code
\* is not resumed, nothing is rendered for it or after it, the task is
\* deregistered and the reactor is left without an exception (the success
\* indicator).
C34_RedactionStops ==
    \A i \in 1..Len(produced) :
        produced[i].secret =>
            /\ i = Len(produced)
            /\ ip = produced[i].at
            /\ ex_state = "suspended"
            /\ \A k \in 1..Len(events) : events[k].at = produced[i].at =>
                                          events[k].what \in {"hidden", "ok"}
            /\ \/ h_pc = "render"
               \/ /\ h_pc = "left"
                  /\ tasks = <<>>
                  /\ Len(events) >= 2
                  /\ events[Len(events) - 1].what = "hidden"
                  /\ events[Len(events)].what = "ok"
                  /\ \A k \in 1..Len(events) : events[k].what # "error"

C34_Witness ==
    /\ h_pc = "left"
    /\ h_cmd = "py_inspect"
    /\ Len(produced) = 2
    /\ produced[2].secret
    /\ Len(code) = 3
    /\ Len(events) = 3
    /\ tasks = <<>>
    /\ task_count = 1

====
